---- MODULE Spec2Model ----
(***************************************************************************)
(* near-zero: task lifecycle (utils/tasks.js), validation                  *)
(* (utils/validation.js), persistence (utils/storage.js,                   *)
(* utils/taskStorage.js).                                                  *)
(*                                                                         *)
(* JavaScript values are records [t |-> typeof-tag, v |-> payload]; the    *)
(* payload is always a sequence of naturals (character codes of a string,  *)
(* the one number of a number, 0/1 of a boolean) so that any two values    *)
(* can be compared.  An object is a function from the task field names to  *)
(* values, an absent property being the value undefined.                   *)
(***************************************************************************)
EXTENDS Integers, Sequences, FiniteSets, TLC

(* ---------------- bounds of the model ---------------- *)
\* the number of steps (calls and clock ticks) of a run of the application
MaxSteps == 4
\* the number of steps (applications and clock ticks) of a run of the pure functions
MaxApplications == 2

(* ---------------- JavaScript values ---------------- *)
UNDEF == [t |-> "undefined", v |-> <<>>]
NULL == [t |-> "null", v |-> <<>>]
Num(n) == [t |-> "number", v |-> <<n>>]
Bool(b) == [t |-> "boolean", v |-> <<IF b THEN 1 ELSE 0>>]
Str(s) == [t |-> "string", v |-> s]

\* JavaScript truthiness (the conditions `x || d`, `!x`, `if (x)`)
Truthy(x) ==
    CASE x.t = "undefined" -> FALSE
      [] x.t = "null" -> FALSE
      [] x.t = "number" -> x.v[1] # 0
      [] x.t = "boolean" -> x.v[1] = 1
      [] x.t = "string" -> Len(x.v) > 0
      [] OTHER -> TRUE

\* x || d
OrElse(x, d) == IF Truthy(x) THEN x ELSE d

\* the whitespace removed by trim (the space character, code 32)
IsWhitespace(c) == c = 32

RECURSIVE TrimStart(_)
TrimStart(s) ==
    IF s = <<>> THEN s
    ELSE IF IsWhitespace(Head(s)) THEN TrimStart(Tail(s)) ELSE s

RECURSIVE TrimEnd(_)
TrimEnd(s) ==
    IF s = <<>> THEN s
    ELSE IF IsWhitespace(s[Len(s)]) THEN TrimEnd(SubSeq(s, 1, Len(s) - 1)) ELSE s

\* String.prototype.trim
Trim(s) == TrimEnd(TrimStart(s))

(* ---------------- instants and ISO strings (utils/datetime.js) ---------------- *)
NaN == -1

\* toISOString of the instant n: the character T (code 84) followed by the instant
ToISOString(n) == <<84, n>>

\* new Date(s).getTime() / dayjs(s): the instant of an ISO string, NaN otherwise
ParseDate(s) == IF Len(s) = 2 /\ s[1] = 84 THEN s[2] ELSE NaN

\* getCurrentUTC() read at the clock value clock
getCurrentUTC(clock) == Str(ToISOString(clock))

\* isInPast(utcString): dayjs(utcString).isBefore(dayjs())
isInPast(s, clock) == ParseDate(s) # NaN /\ ParseDate(s) < clock

(* ---------------- validation (utils/validation.js) ---------------- *)
MaxDescription == 300

Ok == [valid |-> TRUE, error |-> "null"]
Fail(msg) == [valid |-> FALSE, error |-> msg]

validateTitle(title) ==
    IF title.t # "string" THEN Fail("Title is required")
    ELSE IF Len(Trim(title.v)) = 0 THEN Fail("Title cannot be empty or whitespace")
    ELSE Ok

validateDescription(description) ==
    IF description.t \in {"null", "undefined"} THEN Ok
    ELSE IF description.t # "string" THEN Fail("Description must be a string")
    ELSE IF Len(description.v) > MaxDescription
         THEN Fail("Description must be 300 characters or less")
    ELSE Ok

\* validateDeadline without the comparison with the clock
validateDeadlineFormatOnly(deadline, clock) ==
    IF ~Truthy(deadline) \/ deadline.t # "string" THEN Fail("Deadline is required")
    ELSE IF ParseDate(deadline.v) = NaN THEN Fail("Invalid deadline format")
    ELSE Ok

validateDeadline(deadline, clock) ==
    IF ~Truthy(deadline) \/ deadline.t # "string" THEN Fail("Deadline is required")
    ELSE IF ParseDate(deadline.v) = NaN THEN Fail("Invalid deadline format")
    ELSE IF isInPast(deadline.v, clock) THEN Fail("Deadline cannot be in the past")
    ELSE Ok

PriorityValues == {1, 2, 3}

validatePriority(priority) ==
    IF priority.t \in {"null", "undefined"} THEN Ok
    ELSE IF priority.t # "number" \/ priority.v[1] \notin PriorityValues
         THEN Fail("Priority must be 1 (High), 2 (Medium), or 3 (Low)")
    ELSE Ok

ErrorsOf(r) == IF r.valid THEN <<>> ELSE <<r.error>>

\* validateTask returning at the first validation that fails
validateTaskShortCircuit(task, clock) ==
    LET checks == <<validateTitle(task.title),
                    validateDescription(task.description),
                    validateDeadline(task.deadline, clock),
                    validatePriority(task.priority)>>
        failing == SelectSeq(checks, LAMBDA r : ~r.valid)
        errors == IF Len(failing) = 0 THEN <<>> ELSE <<failing[1].error>>
    IN [valid |-> Len(errors) = 0, errors |-> errors]

validateTask(task, clock) ==
    LET errors == ErrorsOf(validateTitle(task.title))
                  \o ErrorsOf(validateDescription(task.description))
                  \o ErrorsOf(validateDeadline(task.deadline, clock))
                  \o ErrorsOf(validatePriority(task.priority))
    IN [valid |-> Len(errors) = 0, errors |-> errors]

\* truncateDescription returning a string of any length as it is
truncateDescriptionWhole(description) ==
    IF ~Truthy(description) \/ description.t # "string" THEN Str(<<>>)
    ELSE description

truncateDescription(description) ==
    IF ~Truthy(description) \/ description.t # "string" THEN Str(<<>>)
    ELSE IF Len(description.v) > MaxDescription
         THEN Str(SubSeq(description.v, 1, MaxDescription))
    ELSE description

(* ---------------- task objects (utils/tasks.js) ---------------- *)
Fields == {"id", "title", "description", "deadline", "priority", "isCompleted",
           "createdAt", "lastModified", "schemaVersion"}

\* an object literal: the properties of p, every other property absent
Obj(p) == [k \in Fields |-> IF k \in DOMAIN p THEN p[k] ELSE UNDEF]

\* { ...a, ...b }: the properties present in b override those of a
Spread(a, b) == [k \in Fields |-> IF k \in DOMAIN b THEN b[k] ELSE a[k]]

IsObject(e) == DOMAIN e = Fields

\* uuidv4(): the n-th identifier generated, the character U (85) and n
uuidv4(n) == Str(<<85, n>>)

\* e.k for an array element e that may be a primitive (undefined for those)
Prop(e, k) == IF IsObject(e) THEN e[k] ELSE UNDEF

\* property access on null or undefined raises TypeError
Throws(e) == ~IsObject(e) /\ e.t \in {"null", "undefined"}

getTaskById(tasks, id) ==
    IF \E i \in 1..Len(tasks) : tasks[i].id = id
    THEN tasks[CHOOSE i \in 1..Len(tasks) :
                  tasks[i].id = id /\ \A j \in 1..(i - 1) : tasks[j].id # id]
    ELSE NULL

processNewTask(taskData, uuid, clock) ==
    LET now == getCurrentUTC(clock)
        newTask == Obj([id |-> uuid,
                        title |-> OrElse(taskData.title, Str(<<>>)),
                        description |->
                            truncateDescription(OrElse(taskData.description, Str(<<>>))),
                        deadline |-> taskData.deadline,
                        priority |-> OrElse(taskData.priority, Num(2)),
                        isCompleted |-> Bool(FALSE),
                        createdAt |-> now,
                        lastModified |-> now,
                        schemaVersion |-> Num(1)])
        validation == validateTask(newTask, clock)
    IN IF ~validation.valid
       THEN [success |-> FALSE, task |-> NULL, errors |-> validation.errors]
       ELSE [success |-> TRUE, task |-> newTask, errors |-> <<>>]

\* processTaskUpdate spreading updates after id and createdAt are restored
processTaskUpdateSpreadLast(existingTask, updates, clock) ==
    LET merged == Spread(Spread(existingTask,
                                [id |-> existingTask.id,
                                 createdAt |-> existingTask.createdAt,
                                 lastModified |-> getCurrentUTC(clock),
                                 schemaVersion |-> Num(1)]),
                         updates)
        updatedTask == IF Truthy(merged.description)
                       THEN Spread(merged,
                                   [description |-> truncateDescription(merged.description)])
                       ELSE merged
        validation == validateTask(updatedTask, clock)
    IN IF ~validation.valid
       THEN [success |-> FALSE, task |-> NULL, errors |-> validation.errors]
       ELSE [success |-> TRUE, task |-> updatedTask, errors |-> <<>>]

\* processTaskUpdate taking createdAt from updates when they hold one
processTaskUpdateCreatedAtFromUpdates(existingTask, updates, clock) ==
    LET merged == Spread(Spread(existingTask, updates),
                         [id |-> existingTask.id,
                          lastModified |-> getCurrentUTC(clock),
                          schemaVersion |-> Num(1)])
        updatedTask == IF Truthy(merged.description)
                       THEN Spread(merged,
                                   [description |-> truncateDescription(merged.description)])
                       ELSE merged
        validation == validateTask(updatedTask, clock)
    IN IF ~validation.valid
       THEN [success |-> FALSE, task |-> NULL, errors |-> validation.errors]
       ELSE [success |-> TRUE, task |-> updatedTask, errors |-> <<>>]

processTaskUpdate(existingTask, updates, clock) ==
    LET merged == Spread(Spread(existingTask, updates),
                         [id |-> existingTask.id,
                          createdAt |-> existingTask.createdAt,
                          lastModified |-> getCurrentUTC(clock),
                          schemaVersion |-> Num(1)])
        updatedTask == IF Truthy(merged.description)
                       THEN Spread(merged,
                                   [description |-> truncateDescription(merged.description)])
                       ELSE merged
        validation == validateTask(updatedTask, clock)
    IN IF ~validation.valid
       THEN [success |-> FALSE, task |-> NULL, errors |-> validation.errors]
       ELSE [success |-> TRUE, task |-> updatedTask, errors |-> <<>>]

\* removeTaskById removing the entries from the array it was given (in place)
removeTaskByIdInPlace(tasks, id) ==
    LET filteredTasks == SelectSeq(tasks, LAMBDA task : task.id # id)
    IN IF Len(tasks) = Len(filteredTasks)
       THEN [success |-> FALSE, tasks |-> tasks, errors |-> <<"Task not found">>,
             input |-> tasks]
       ELSE [success |-> TRUE, tasks |-> filteredTasks, errors |-> <<>>,
             input |-> filteredTasks]

\* input is the array passed as tasks as the call leaves it: filter builds a
\* new array, so it is left as it was
removeTaskById(tasks, id) ==
    LET filteredTasks == SelectSeq(tasks, LAMBDA task : task.id # id)
    IN IF Len(tasks) = Len(filteredTasks)
       THEN [success |-> FALSE, tasks |-> tasks, errors |-> <<"Task not found">>,
             input |-> tasks]
       ELSE [success |-> TRUE, tasks |-> filteredTasks, errors |-> <<>>,
             input |-> tasks]

\* tasks.findIndex(task => task.id === id), 0 standing for -1 (indices from 1)
findIndex(tasks, id) ==
    IF \E i \in 1..Len(tasks) : tasks[i].id = id
    THEN CHOOSE i \in 1..Len(tasks) :
             tasks[i].id = id /\ \A j \in 1..(i - 1) : tasks[j].id # id
    ELSE 0

\* markTaskComplete removing only the task found at taskIndex (splice); the
\* entry is flagged in a copy ([...tasks]), so the array passed is left as it was
markTaskCompleteSplice(tasks, id) ==
    LET taskIndex == findIndex(tasks, id)
    IN IF taskIndex = 0
       THEN [success |-> FALSE, tasks |-> tasks, errors |-> <<"Task not found">>,
             input |-> tasks]
       ELSE [success |-> TRUE,
             tasks |-> SubSeq(tasks, 1, taskIndex - 1)
                       \o SubSeq(tasks, taskIndex + 1, Len(tasks)),
             errors |-> <<>>, input |-> tasks]

markTaskComplete(tasks, id) ==
    LET taskIndex == findIndex(tasks, id)
        updatedTasks == [tasks EXCEPT ![taskIndex] =
                            Spread(@, [isCompleted |-> Bool(TRUE)])]
        filteredTasks == SelectSeq(updatedTasks, LAMBDA task : task.id # id)
    IN IF taskIndex = 0
       THEN [success |-> FALSE, tasks |-> tasks, errors |-> <<"Task not found">>,
             input |-> tasks]
       ELSE [success |-> TRUE, tasks |-> filteredTasks, errors |-> <<>>,
             input |-> tasks]

RECURSIVE Join(_, _)
\* errors.join(sep)
Join(errors, sep) ==
    IF Len(errors) = 0 THEN ""
    ELSE IF Len(errors) = 1 THEN errors[1]
    ELSE errors[1] \o sep \o Join(Tail(errors), sep)

\* one pass of the forEach callback of processImportedTasks on element task at
\* the 0-based position index, acc being updatedTasks, errors and imported
ImportStep(acc, task, index, clock) ==
    IF Throws(task) THEN [acc EXCEPT !.threw = TRUE]
    ELSE IF ~Truthy(Prop(task, "title")) \/ ~Truthy(Prop(task, "deadline"))
    THEN [acc EXCEPT !.errors =
             Append(@, "Task " \o ToString(index + 1) \o ": missing required fields")]
    ELSE LET processedTask ==
                 Spread(task,
                        [description |->
                             truncateDescription(OrElse(task.description, Str(<<>>))),
                         schemaVersion |-> Num(1)])
             validation == validateTask(processedTask, clock)
         IN IF ~validation.valid
            THEN [acc EXCEPT !.errors =
                     Append(@, "Task " \o ToString(index + 1) \o ": "
                                \o Join(validation.errors, ", "))]
            ELSE [acc EXCEPT !.tasks = Append(@, processedTask),
                             !.imported = @ + 1]

RECURSIVE ImportLoop(_, _, _, _)
\* importedTasks.forEach(...) from the 1-based position i on
ImportLoop(acc, items, i, clock) ==
    IF i > Len(items) \/ acc.threw THEN acc
    ELSE ImportLoop(ImportStep(acc, items[i], i - 1, clock), items, i + 1, clock)

\* importedTasks is [isArray |-> BOOLEAN, items |-> the elements of the array]
processImportedTasks(currentTasks, importedTasks, clock) ==
    IF ~importedTasks.isArray
    THEN [threw |-> FALSE, success |-> FALSE, tasks |-> currentTasks, imported |-> 0,
          errors |-> <<"Invalid import data: expected an array">>]
    ELSE LET acc == ImportLoop([threw |-> FALSE, tasks |-> currentTasks,
                                errors |-> <<>>, imported |-> 0],
                               importedTasks.items, 1, clock)
         IN [threw |-> acc.threw, success |-> ~acc.threw, tasks |-> acc.tasks,
             imported |-> acc.imported, errors |-> acc.errors]

(* ---------------- JSON text ---------------- *)
\* The text written for an object is modelled by its members: the properties
\* whose value is not undefined (JSON.stringify omits the others).
StringifyObject(o) == [k \in {f \in Fields : o[f].t # "undefined"} |-> o[k]]

\* an array element: an object as its members, undefined as null
StringifyValue(e) ==
    IF IsObject(e) THEN [object |-> StringifyObject(e)]
    ELSE IF e.t = "undefined" THEN [value |-> NULL]
    ELSE [value |-> e]

\* JSON.stringify(tasks) of an array
JSONstringify(tasks) ==
    IF Len(tasks) = 0 THEN <<>> ELSE [i \in 1..Len(tasks) |-> StringifyValue(tasks[i])]

\* a member that the text does not hold reads as undefined
ParseValue(x) ==
    IF "object" \in DOMAIN x
    THEN [k \in Fields |-> IF k \in DOMAIN x.object THEN x.object[k] ELSE UNDEF]
    ELSE x.value

\* JSON.parse(text) of the text of an array
JSONparse(text) ==
    IF Len(text) = 0 THEN <<>> ELSE [i \in 1..Len(text) |-> ParseValue(text[i])]

\* exportTasks writing the tasks without their timestamps
exportTasksWithoutTimestamps(tasks) ==
    JSONstringify([i \in 1..Len(tasks) |->
                      Spread(tasks[i], [createdAt |-> UNDEF, lastModified |-> UNDEF])])

\* exportTasks(tasks): JSON.stringify(tasks, null, 2)
exportTasks(tasks) == JSONstringify(tasks)

(* ---------------- localStorage (utils/storage.js) ---------------- *)
VARIABLES
    store,     \* the item under STORAGE_KEYS.TASKS
    backup,    \* the item under STORAGE_KEYS.BACKUP
    writable,  \* whether localStorage.setItem succeeds (FALSE: every setItem throws)
    now,       \* the wall clock
    nextId,    \* the number of the next identifier uuidv4 generates
    res,       \* the last call, its arguments and what it returned
    argTasks,  \* the in-memory collection handed to the pure functions
    steps,     \* the number of steps taken
    app,          \* the state of the App component (App.jsx)
    versionItem,  \* the item under VERSION_KEY
    demoItem,     \* the item under DEMO_MODE_KEY
    prefsItem,    \* the item under STORAGE_KEYS.PREFS
    tabs,         \* for each tab, the createTask call it is running
    view          \* the viewport width, the density state and the effect's turn

\* what the browser holds beside the task key: the page and the other items
appVars == <<app, versionItem, demoItem, prefsItem, tabs, view>>

vars == <<store, backup, writable, now, nextId, res, argTasks, steps,
          app, versionItem, demoItem, prefsItem, tabs, view>>

\* no poll timer is armed
NoTimer == [armed |-> FALSE, interval |-> 0, due |-> 0]

\* the page before the App component is mounted: the useState initial values
NoApp == [phase |-> "start", tasks |-> <<>>, inMemoryTasks |-> <<>>,
          demoMode |-> FALSE, storageAvailable |-> TRUE, timer |-> NoTimer,
          reloads |-> 0]

\* the tabs open on the same origin
Tabs == {1, 2}

\* a tab that is running no call
IdleTab == [pc |-> "idle", tasks |-> <<>>,
            result |-> [success |-> FALSE, task |-> NULL, errors |-> <<>>]]

\* the density state before it is looked at: a wide viewport, the default
\* density, the auto-demote effect run
NoView == [width |-> 980, density |-> "comfortable", ran |-> TRUE]

\* no page is open and the other items are absent
NoPage ==
    /\ app = NoApp
    /\ versionItem = NULL
    /\ demoItem = NULL
    /\ prefsItem = [kind |-> "absent", text |-> <<>>]
    /\ tabs = [t \in Tabs |-> IdleTab]
    /\ view = NoView

\* an item is absent (getItem gives null), text JSON.parse rejects, or JSON text
Absent == [kind |-> "absent", text |-> <<>>]
Corrupt == [kind |-> "corrupt", text |-> <<>>]
JsonItem(text) == [kind |-> "json", text |-> text]

\* getFromStorage(STORAGE_KEYS.TASKS, []): the value returned
getFromStorage(item) ==
    IF item.kind = "json" THEN JSONparse(item.text) ELSE <<>>

\* getFromStorage(STORAGE_KEYS.TASKS, []): the items it can leave under the
\* backup key.  The corrupt text is copied there unless that setItem throws; the
\* exception is caught and the default value returned all the same.  The copy
\* adds the length of the corrupt text to what is stored, so it can exceed the
\* quota where a write of the task key would not.
backupAfterGet(item, bk) ==
    IF item.kind = "corrupt" /\ writable THEN {item, bk} ELSE {bk}

\* saveToStorage(STORAGE_KEYS.TASKS, value): what it returns and the item it leaves
saveToStorage(item, value) ==
    IF writable THEN [saved |-> TRUE, item |-> JsonItem(JSONstringify(value))]
    ELSE [saved |-> FALSE, item |-> item]

getAllTasks == getFromStorage(store)

(* ---------------- CRUD with persistence (utils/taskStorage.js) ---------------- *)
\* Each call gives its result, the item it leaves under the task key, and
\* whether it read the task key (read).

\* createTask returning the result of processNewTask whatever saveToStorage returned
createTaskIgnoringSaved(taskData) ==
    LET result == processNewTask(taskData, uuidv4(nextId), now)
        save == saveToStorage(store, Append(getAllTasks, result.task))
    IN IF ~result.success THEN [result |-> result, store |-> store, read |-> FALSE]
       ELSE [result |-> result, store |-> save.item, read |-> TRUE]

createTask(taskData) ==
    LET result == processNewTask(taskData, uuidv4(nextId), now)
        tasks == Append(getAllTasks, result.task)
        save == saveToStorage(store, tasks)
    IN IF ~result.success THEN [result |-> result, store |-> store, read |-> FALSE]
       ELSE IF ~save.saved
       THEN [result |-> [success |-> FALSE, task |-> NULL,
                         errors |-> <<"Failed to save task to storage">>],
             store |-> save.item, read |-> TRUE]
       ELSE [result |-> result, store |-> save.item, read |-> TRUE]

\* updateTask returning the result of processTaskUpdate whatever saveToStorage returned
updateTaskIgnoringSaved(id, updates) ==
    LET tasks == getAllTasks
        existingTask == getTaskById(tasks, id)
        result == processTaskUpdate(existingTask, updates, now)
        updatedTasks == [i \in 1..Len(tasks) |->
                            IF tasks[i].id = id THEN result.task ELSE tasks[i]]
        save == saveToStorage(store, updatedTasks)
    IN IF existingTask = NULL
       THEN [result |-> [success |-> FALSE, task |-> NULL,
                         errors |-> <<"Task not found">>],
             store |-> store, read |-> TRUE]
       ELSE IF ~result.success THEN [result |-> result, store |-> store, read |-> TRUE]
       ELSE [result |-> result, store |-> save.item, read |-> TRUE]

updateTask(id, updates) ==
    LET tasks == getAllTasks
        existingTask == getTaskById(tasks, id)
        result == processTaskUpdate(existingTask, updates, now)
        updatedTasks == [i \in 1..Len(tasks) |->
                            IF tasks[i].id = id THEN result.task ELSE tasks[i]]
        save == saveToStorage(store, updatedTasks)
    IN IF existingTask = NULL
       THEN [result |-> [success |-> FALSE, task |-> NULL,
                         errors |-> <<"Task not found">>],
             store |-> store, read |-> TRUE]
       ELSE IF ~result.success THEN [result |-> result, store |-> store, read |-> TRUE]
       ELSE IF ~save.saved
       THEN [result |-> [success |-> FALSE, task |-> NULL,
                         errors |-> <<"Failed to save task to storage">>],
             store |-> save.item, read |-> TRUE]
       ELSE [result |-> result, store |-> save.item, read |-> TRUE]

deleteTask(id) ==
    LET result == removeTaskById(getAllTasks, id)
        save == saveToStorage(store, result.tasks)
    IN IF ~result.success
       THEN [result |-> [success |-> FALSE, errors |-> result.errors],
             store |-> store, read |-> TRUE]
       ELSE IF ~save.saved
       THEN [result |-> [success |-> FALSE,
                         errors |-> <<"Failed to save changes to storage">>],
             store |-> save.item, read |-> TRUE]
       ELSE [result |-> [success |-> TRUE, errors |-> <<>>],
             store |-> save.item, read |-> TRUE]

completeTask(id) ==
    LET result == markTaskComplete(getAllTasks, id)
        save == saveToStorage(store, result.tasks)
    IN IF ~result.success
       THEN [result |-> [success |-> FALSE, errors |-> result.errors],
             store |-> store, read |-> TRUE]
       ELSE IF ~save.saved
       THEN [result |-> [success |-> FALSE,
                         errors |-> <<"Failed to save changes to storage">>],
             store |-> save.item, read |-> TRUE]
       ELSE [result |-> [success |-> TRUE, errors |-> <<>>],
             store |-> save.item, read |-> TRUE]

\* an exception of processImportedTasks propagates to the caller (threw)
importTasks(importedTasks) ==
    LET result == processImportedTasks(getAllTasks, importedTasks, now)
        save == saveToStorage(store, result.tasks)
    IN IF result.threw
       THEN [result |-> [threw |-> TRUE, success |-> FALSE, imported |-> 0,
                         errors |-> <<>>],
             store |-> store, read |-> TRUE]
       ELSE IF ~result.success \/ result.imported = 0
       THEN [result |-> [success |-> FALSE, imported |-> 0, errors |-> result.errors],
             store |-> store, read |-> TRUE]
       ELSE IF ~save.saved
       THEN [result |-> [success |-> FALSE, imported |-> 0,
                         errors |-> <<"Failed to save imported tasks to storage">>],
             store |-> save.item, read |-> TRUE]
       ELSE [result |-> [success |-> TRUE, imported |-> result.imported,
                         errors |-> result.errors],
             store |-> save.item, read |-> TRUE]

(* ---------------- the inputs the calls are made with ---------------- *)
TitleA == Str(<<65>>)
TitleB == Str(<<66>>)
Blank == Str(<<32>>)
Empty == Str(<<>>)
\* an identifier an import file carries that uuidv4 did not generate
ImportedId == Str(<<73, 1>>)
Iso(n) == Str(ToISOString(n))

Ids == {uuidv4(1), uuidv4(2), ImportedId}

CreateInputs ==
    [title : {TitleA, Blank},
     description : {UNDEF},
     deadline : {Iso(0), Iso(1)},
     priority : {UNDEF}]

UpdateInputs ==
    {[title |-> TitleB],
     [title |-> Empty],
     [isCompleted |-> Bool(TRUE)]}

\* a well-formed entry of an import file
Entry(id, completed) ==
    Obj([id |-> id, title |-> TitleA, description |-> Empty,
         deadline |-> Iso(1), priority |-> Num(2),
         isCompleted |-> Bool(completed), createdAt |-> Iso(0),
         lastModified |-> Iso(0), schemaVersion |-> Num(1)])

ImportEntries ==
    {Entry(uuidv4(1), FALSE), Entry(ImportedId, TRUE), NULL}

\* the files imported: not an array, or an array of at most two entries
ImportInputs ==
    {[isArray |-> FALSE, items |-> <<>>], [isArray |-> TRUE, items |-> <<>>]}
    \cup {[isArray |-> TRUE, items |-> <<e>>] : e \in ImportEntries}
    \cup {[isArray |-> TRUE, items |-> <<e, f>>] : e, f \in ImportEntries}

(* ---------------- the application's calls ---------------- *)
NoRes == [op |-> "none", id |-> NULL, arg |-> NULL, success |-> FALSE, task |-> NULL,
          tasks |-> <<>>, input |-> <<>>, errors |-> <<>>, imported |-> 0,
          threw |-> FALSE, value |-> NULL]

\* the record of the call op(id, arg) that returned r
Returned(op, id, arg, r) ==
    [k \in DOMAIN NoRes |->
        CASE k = "op" -> op
          [] k = "id" -> id
          [] k = "arg" -> arg
          [] k \in DOMAIN r -> r[k]
          [] OTHER -> NoRes[k]]

Init ==
    /\ store \in {Absent, Corrupt}
    /\ backup = Absent
    /\ writable \in BOOLEAN
    /\ now = 0
    /\ nextId = 1
    /\ res = NoRes
    /\ argTasks = <<>>
    /\ steps = 0
    /\ NoPage

Step ==
    /\ steps < MaxSteps
    /\ steps' = steps + 1
    /\ UNCHANGED appVars

Call(op, id, arg, c) ==
    /\ store' = c.store
    /\ backup' \in IF c.read THEN backupAfterGet(store, backup) ELSE {backup}
    /\ res' = Returned(op, id, arg, c.result)
    /\ UNCHANGED <<writable, now, argTasks>>

CreateTask ==
    /\ Step
    /\ \E taskData \in CreateInputs :
           LET c == createTask(taskData)
           IN /\ Call("createTask", NULL, taskData, c)
              /\ nextId' = IF c.result.success THEN nextId + 1 ELSE nextId

UpdateTask ==
    /\ Step
    /\ \E id \in Ids, updates \in UpdateInputs :
           Call("updateTask", id, updates, updateTask(id, updates))
    /\ UNCHANGED nextId

DeleteTask ==
    /\ Step
    /\ \E id \in Ids : Call("deleteTask", id, NULL, deleteTask(id))
    /\ UNCHANGED nextId

CompleteTask ==
    /\ Step
    /\ \E id \in Ids : Call("completeTask", id, NULL, completeTask(id))
    /\ UNCHANGED nextId

ImportTasks ==
    /\ Step
    /\ \E importedTasks \in ImportInputs :
           Call("importTasks", NULL, importedTasks, importTasks(importedTasks))
    /\ UNCHANGED nextId

\* the clock advances
Tick ==
    /\ Step
    /\ now' = now + 1
    /\ UNCHANGED <<store, backup, writable, nextId, res, argTasks>>

\* the storage quota is reached, or space is freed
QuotaChange ==
    /\ Step
    /\ writable' = ~writable
    /\ UNCHANGED <<store, backup, now, nextId, res, argTasks>>

Next ==
    \/ CreateTask
    \/ UpdateTask
    \/ DeleteTask
    \/ CompleteTask
    \/ ImportTasks
    \/ Tick
    \/ QuotaChange

Spec == Init /\ [][Next]_vars

(* ---------------- the pure functions applied to a collection ---------------- *)
\* a string of n characters, no two neighbours alike
Chars(n) == Str([i \in 1..n |-> 97 + (i % 2)])

PureTasks ==
    {Entry(uuidv4(1), FALSE),
     Spread(Entry(uuidv4(2), FALSE), [description |-> NULL]),
     Spread(Entry(uuidv4(1), TRUE), [priority |-> UNDEF, schemaVersion |-> UNDEF]),
     Spread(Entry(uuidv4(2), FALSE), [deadline |-> Iso(0)]),
     Spread(Entry(ImportedId, FALSE), [description |-> Chars(MaxDescription)])}

\* the collections of at most two tasks
PureCollections ==
    {<<>>} \cup {<<t>> : t \in PureTasks} \cup {<<t, u>> : t, u \in PureTasks}

PureNewInputs ==
    [title : {TitleA, Blank},
     description : {UNDEF, Chars(MaxDescription + 1)},
     deadline : {Iso(1), UNDEF},
     priority : {UNDEF, NULL, Num(0), Num(3), Num(4)}]

PureUpdateInputs ==
    {[title |-> TitleB],
     [title |-> Blank],
     [id |-> ImportedId, createdAt |-> Iso(1)],
     [priority |-> NULL],
     [priority |-> Num(0)],
     [description |-> NULL],
     [description |-> Chars(MaxDescription + 1)],
     [isCompleted |-> Bool(TRUE)],
     [deadline |-> Iso(1), lastModified |-> Iso(0)],
     [deadline |-> Iso(0)],
     [deadline |-> Str(<<88>>)],
     [deadline |-> NULL]}

PureImportEntries ==
    {Entry(uuidv4(1), FALSE),
     Entry(ImportedId, TRUE),
     Spread(Entry(ImportedId, FALSE), [title |-> UNDEF]),
     Spread(Entry(ImportedId, FALSE), [priority |-> UNDEF]),
     Spread(Entry(ImportedId, FALSE), [description |-> Chars(MaxDescription + 1)]),
     Num(5),
     NULL}

PureImportInputs ==
    {[isArray |-> FALSE, items |-> <<>>], [isArray |-> TRUE, items |-> <<>>]}
    \cup {[isArray |-> TRUE, items |-> <<e>>] : e \in PureImportEntries}
    \cup {[isArray |-> TRUE, items |-> <<Entry(uuidv4(1), FALSE), e>>] :
             e \in PureImportEntries}

InitPure ==
    /\ store = Absent
    /\ backup = Absent
    /\ writable = TRUE
    /\ now = 0
    /\ nextId = 3
    /\ res = NoRes
    /\ argTasks \in PureCollections
    /\ steps = 0
    /\ NoPage

PureStep ==
    /\ steps < MaxApplications
    /\ steps' = steps + 1
    /\ UNCHANGED appVars

\* the function op is applied to (id, arg) and returns r
Apply(op, id, arg, r) ==
    /\ PureStep
    /\ res' = Returned(op, id, arg, r)
    /\ UNCHANGED <<store, backup, writable, now, nextId>>

\* the caller appends the task a successful processNewTask returns, as
\* createTask does, while the collection has fewer than two tasks
PureNew ==
    \E taskData \in PureNewInputs :
        LET r == processNewTask(taskData, uuidv4(nextId), now)
        IN /\ PureStep
           /\ res' = Returned("processNewTask", NULL, taskData, r)
           /\ nextId' = nextId + 1
           /\ argTasks' = IF r.success /\ Len(argTasks) < 2
                          THEN Append(argTasks, r.task) ELSE argTasks
           /\ UNCHANGED <<store, backup, writable, now>>

\* the caller replaces the task by the one a successful update returns
PureUpdate ==
    \E i \in 1..Len(argTasks), updates \in PureUpdateInputs :
        LET r == processTaskUpdate(argTasks[i], updates, now)
        IN /\ Apply("processTaskUpdate", argTasks[i].id,
                    [existing |-> argTasks[i], updates |-> updates], r)
           /\ argTasks' = IF r.success THEN [argTasks EXCEPT ![i] = r.task]
                          ELSE argTasks

\* argTasks is the array passed, as the call leaves it
PureRemove ==
    \E id \in Ids :
        LET r == removeTaskById(argTasks, id)
        IN /\ Apply("removeTaskById", id, argTasks, r)
           /\ argTasks' = r.input

PureComplete ==
    \E id \in Ids :
        LET r == markTaskComplete(argTasks, id)
        IN /\ Apply("markTaskComplete", id, argTasks, r)
           /\ argTasks' = r.input

PureImport ==
    /\ \E importedTasks \in PureImportInputs :
           Apply("processImportedTasks", NULL, importedTasks,
                 processImportedTasks(argTasks, importedTasks, now))
    /\ UNCHANGED argTasks

\* processImportedTasks([], JSON.parse(exportTasks(tasks)))
PureExportImport ==
    /\ Apply("exportImport", NULL, argTasks,
             processImportedTasks(<<>>,
                 [isArray |-> TRUE, items |-> JSONparse(exportTasks(argTasks))], now))
    /\ UNCHANGED argTasks

PureTick ==
    /\ PureStep
    /\ now' = now + 1
    /\ UNCHANGED <<store, backup, writable, nextId, res, argTasks>>

NextPure ==
    \/ PureNew
    \/ PureUpdate
    \/ PureRemove
    \/ PureComplete
    \/ PureImport
    \/ PureExportImport
    \/ PureTick

SpecPure == InitPure /\ [][NextPure]_vars

(* ---------------- sorting (utils/sorting.js) ---------------- *)
MaxSortLen == 3

\* a JavaScript number: NaN or the integer n
NotANumber == [nan |-> TRUE, n |-> 0]
Number(n) == [nan |-> FALSE, n |-> n]

\* x - y on JavaScript numbers
Minus(x, y) == IF x.nan \/ y.nan THEN NotANumber ELSE Number(x.n - y.n)

\* new Date(value).getTime()
getTime(value) ==
    IF value.t = "string" /\ ParseDate(value.v) # NaN
    THEN Number(ParseDate(value.v)) ELSE NotANumber

RECURSIVE DigitsValue(_)
\* the number written by a sequence of decimal digits
DigitsValue(s) ==
    IF Len(s) = 0 THEN 0
    ELSE 10 * DigitsValue(SubSeq(s, 1, Len(s) - 1)) + (s[Len(s)] - 48)

\* ToNumber(value), the conversion the operator - applies to its operands
ToNumber(value) ==
    CASE value.t = "number" -> Number(value.v[1])
      [] value.t = "null" -> Number(0)
      [] value.t = "boolean" -> Number(value.v[1])
      [] value.t = "string" /\ \A k \in 1..Len(value.v) : value.v[k] \in 48..57 ->
             Number(DigitsValue(value.v))
      [] OTHER -> NotANumber

\* the comparator of sortByDeadline without the createdAt tie-breaker
compareByDeadlineOnly(a, b) ==
    Minus(getTime(a.deadline), getTime(b.deadline))

\* the comparator of sortByDeadline
compareByDeadline(a, b) ==
    LET deadlineA == getTime(a.deadline)
        deadlineB == getTime(b.deadline)
    IN IF deadlineA.nan \/ deadlineB.nan \/ deadlineA # deadlineB
       THEN Minus(deadlineA, deadlineB)
       ELSE Minus(getTime(a.createdAt), getTime(b.createdAt))

\* the comparator of sortByPriority
compareByPriority(a, b) ==
    IF a.priority # b.priority
    THEN Minus(ToNumber(a.priority), ToNumber(b.priority))
    ELSE compareByDeadline(a, b)

\* the arrays holding the elements of items in some order
Orderings(items) ==
    LET n == Len(items)
        orders == {f \in [1..n -> 1..n] : \A i, j \in 1..n : f[i] = f[j] => i = j}
    IN {[i \in 1..n |-> items[f[i]]] : f \in orders}

\* the results of the comparator named comparefn on the elements of items, by
\* their indices
CompareTable(items, comparefn) ==
    [i \in 1..Len(items) |->
        [j \in 1..Len(items) |->
            IF comparefn = "compareByPriority"
            THEN compareByPriority(items[i], items[j])
            ELSE compareByDeadline(items[i], items[j])]]

\* the comparefn whose results are in the table c is a consistent comparison
\* function for the elements (ECMAScript, Array.prototype.sort)
Consistent(c) ==
    LET n == DOMAIN c
        lt(i, j) == ~c[i][j].nan /\ c[i][j].n < 0
        eq(i, j) == ~c[i][j].nan /\ c[i][j].n = 0
        gt(i, j) == ~c[i][j].nan /\ c[i][j].n > 0
    IN /\ \A i, j \in n : ~c[i][j].nan
       /\ \A i \in n : eq(i, i)
       /\ \A i, j \in n : (eq(i, j) => eq(j, i)) /\ (lt(i, j) => gt(j, i))
       /\ \A i, j, k \in n :
             /\ (eq(i, j) /\ eq(j, k)) => eq(i, k)
             /\ (lt(i, j) /\ lt(j, k)) => lt(i, k)
             /\ (gt(i, j) /\ gt(j, k)) => gt(i, k)
             /\ (eq(i, j) /\ lt(j, k)) => lt(i, k)
             /\ (lt(i, j) /\ eq(j, k)) => lt(i, k)

\* items.sort(comparefn) putting elements that compare equal in reverse order
ArraySortUnstable(items, comparefn) ==
    LET c == CompareTable(items, comparefn)
        n == Len(items)
        before(i, j) == c[i][j].n < 0 \/ (c[i][j].n = 0 /\ i > j)
        place == [i \in 1..n |-> 1 + Cardinality({j \in 1..n : before(j, i)})]
    IN IF ~Consistent(c) THEN Orderings(items)
       ELSE {[k \in 1..n |-> items[CHOOSE i \in 1..n : place[i] = k]]}

\* items.sort(comparefn): the arrays the call can leave.  With a consistent
\* comparefn the order is the sorted one in which elements that compare equal
\* keep their order (the sort is stable); otherwise the order is
\* implementation-defined.
ArraySort(items, comparefn) ==
    LET c == CompareTable(items, comparefn)
        n == Len(items)
        before(i, j) == c[i][j].n < 0 \/ (c[i][j].n = 0 /\ i < j)
        place == [i \in 1..n |-> 1 + Cardinality({j \in 1..n : before(j, i)})]
    IN IF ~Consistent(c) THEN Orderings(items)
       ELSE {[k \in 1..n |-> items[CHOOSE i \in 1..n : place[i] = k]]}

\* what a sort function returns (value) and the array passed as the call
\* leaves it (input): [...tasks] is a copy, so sort() reorders the copy
sortByDeadlineInPlace(tasks) ==
    IF ~tasks.isArray \/ Len(tasks.items) = 0
    THEN {[value |-> tasks, input |-> tasks]}
    ELSE {[value |-> [isArray |-> TRUE, items |-> sorted],
           input |-> [isArray |-> TRUE, items |-> sorted]] :
             sorted \in ArraySort(tasks.items, "compareByDeadline")}

sortByDeadline(tasks) ==
    IF ~tasks.isArray \/ Len(tasks.items) = 0
    THEN {[value |-> tasks, input |-> tasks]}
    ELSE LET tasksCopy == tasks.items
         IN {[value |-> [isArray |-> TRUE, items |-> sorted], input |-> tasks] :
                sorted \in ArraySort(tasksCopy, "compareByDeadline")}

sortByPriority(tasks) ==
    IF ~tasks.isArray \/ Len(tasks.items) = 0
    THEN {[value |-> tasks, input |-> tasks]}
    ELSE LET tasksCopy == tasks.items
         IN {[value |-> [isArray |-> TRUE, items |-> sorted], input |-> tasks] :
                sorted \in ArraySort(tasksCopy, "compareByPriority")}

SORT_MODES == [DEADLINE |-> "deadline", PRIORITY |-> "priority"]

sortTasks(tasks, sortMode) ==
    IF sortMode = SORT_MODES.PRIORITY THEN sortByPriority(tasks)
    ELSE sortByDeadline(tasks)

\* a task of the sorted collections
SortTask(n, priority, deadline, createdAt) ==
    Spread(Entry(Str(<<85, n>>), FALSE),
           [priority |-> priority, deadline |-> deadline, createdAt |-> createdAt])

SortTaskMenu ==
    {SortTask(1, Num(1), Iso(2), Iso(0)),
     SortTask(2, Num(2), Iso(1), Iso(1)),
     SortTask(3, Num(2), Iso(1), Iso(0)),
     SortTask(4, Num(3), Iso(1), Iso(1)),
     SortTask(5, UNDEF, Iso(0), Iso(2)),
     SortTask(6, Num(2), Iso(1), Iso(1))}

RECURSIVE SortCollections(_)
\* the collections of at most n tasks of the menu
SortCollections(n) ==
    IF n = 0 THEN {<<>>}
    ELSE LET shorter == SortCollections(n - 1)
         IN shorter \cup {Append(c, t) : c \in {d \in shorter : Len(d) = n - 1},
                                         t \in SortTaskMenu}

\* a value that is not an array
NotAnArray == [isArray |-> FALSE, items |-> <<>>]

SortInputs == {[isArray |-> TRUE, items |-> argTasks], NotAnArray}

InitSort ==
    /\ store = Absent
    /\ backup = Absent
    /\ writable = TRUE
    /\ now = 0
    /\ nextId = 1
    /\ res = NoRes
    /\ argTasks \in SortCollections(MaxSortLen)
    /\ steps = 0
    /\ NoPage

\* the sort function op is applied to tasks and gives r; argTasks is the array
\* passed, as the call leaves it
ApplySort(op, mode, tasks, r) ==
    /\ res' = Returned(op, mode, tasks, [value |-> r.value, input |-> r.input.items])
    /\ argTasks' = IF tasks.isArray THEN r.input.items ELSE argTasks
    /\ UNCHANGED <<store, backup, writable, now, nextId, steps>>
    /\ UNCHANGED appVars

SortByDeadline ==
    \E tasks \in SortInputs : \E r \in sortByDeadline(tasks) :
        ApplySort("sortByDeadline", NULL, tasks, r)

SortByPriority ==
    \E tasks \in SortInputs : \E r \in sortByPriority(tasks) :
        ApplySort("sortByPriority", NULL, tasks, r)

SortTasks ==
    \E tasks \in SortInputs, sortMode \in {"deadline", "priority", "created"} :
        \E r \in sortTasks(tasks, sortMode) :
            ApplySort("sortTasks", sortMode, tasks, r)

NextSort ==
    \/ SortByDeadline
    \/ SortByPriority
    \/ SortTasks

SpecSort == InitSort /\ [][NextSort]_vars

(* ---------------- urgency (utils/urgency.js) ---------------- *)
\* getTimeRemaining(deadline, now): a JavaScript number of milliseconds
getTimeRemaining(deadline, nowMs) == Minus(getTime(deadline), Number(nowMs))

isOverdue(deadline, nowMs) ==
    LET remaining == getTimeRemaining(deadline, nowMs)
    IN ~remaining.nan /\ remaining.n < 0

Red == [borderColor |-> "var(--red-6)", backgroundColor |-> "var(--red-1)"]
Orange == [borderColor |-> "var(--orange-6)", backgroundColor |-> "var(--orange-1)"]
Yellow == [borderColor |-> "var(--yellow-6)", backgroundColor |-> "var(--yellow-1)"]

\* hoursRemaining < h, hoursRemaining being remaining / (60 * 60 * 1000): the
\* quotient of two integers is below the integer h exactly when the dividend is
\* below h times the divisor
HoursBelow(remaining, h) == ~remaining.nan /\ remaining.n < h * (60 * 60 * 1000)

\* getUrgencyColor comparing with <= in place of <
getUrgencyColorInclusive(deadline, nowMs) ==
    LET remaining == getTimeRemaining(deadline, nowMs)
    IN IF ~remaining.nan /\ remaining.n < 0 THEN NULL
       ELSE IF HoursBelow(Minus(remaining, Number(1)), 1) THEN Red
       ELSE IF HoursBelow(Minus(remaining, Number(1)), 6) THEN Orange
       ELSE IF HoursBelow(Minus(remaining, Number(1)), 24) THEN Yellow
       ELSE NULL

\* getUrgencyColor without the branch for overdue deadlines
getUrgencyColorOverdueRed(deadline, nowMs) ==
    LET remaining == getTimeRemaining(deadline, nowMs)
    IN IF HoursBelow(remaining, 1) THEN Red
       ELSE IF HoursBelow(remaining, 6) THEN Orange
       ELSE IF HoursBelow(remaining, 24) THEN Yellow
       ELSE NULL

getUrgencyColor(deadline, nowMs) ==
    LET remaining == getTimeRemaining(deadline, nowMs)
    IN IF ~remaining.nan /\ remaining.n < 0 THEN NULL
       ELSE IF HoursBelow(remaining, 1) THEN Red
       ELSE IF HoursBelow(remaining, 6) THEN Orange
       ELSE IF HoursBelow(remaining, 24) THEN Yellow
       ELSE NULL

\* needsUrgentRefresh comparing with <= in place of <
needsUrgentRefreshInclusive(tasks, nowMs) ==
    \E i \in 1..Len(tasks) :
        HoursBelow(Minus(getTimeRemaining(tasks[i].deadline, nowMs), Number(1)), 1)

\* needsUrgentRefresh(tasks, now): tasks.some(task => hoursRemaining < 1)
needsUrgentRefresh(tasks, nowMs) ==
    \E i \in 1..Len(tasks) :
        HoursBelow(getTimeRemaining(tasks[i].deadline, nowMs), 1)

\* formatRelativeTime(deadline, now).  With a deadline that does not parse,
\* remaining is NaN: no comparison holds and the text is "Due in ".
formatRelativeTime(deadline, nowMs) ==
    LET remaining == getTimeRemaining(deadline, nowMs)
        absRemaining == IF remaining.n < 0 THEN 0 - remaining.n ELSE remaining.n
        hours == absRemaining \div (60 * 60 * 1000)
        minutes == (absRemaining % (60 * 60 * 1000)) \div (60 * 1000)
        timeStr == IF hours > 0
                   THEN IF minutes > 0
                        THEN ToString(hours) \o "h " \o ToString(minutes) \o "m"
                        ELSE ToString(hours) \o "h"
                   ELSE IF minutes > 0 THEN ToString(minutes) \o "m"
                   ELSE ""
    IN IF remaining.nan THEN "Due in "
       ELSE IF remaining.n = 0 THEN "Due now"
       ELSE IF remaining.n < 0 THEN "Overdue by " \o timeStr
       ELSE "Due in " \o timeStr

(* ---------------- validation and urgency applied to values ---------------- *)
\* a string new Date() does not parse
NotADate == Str(<<88>>)

ValidateInputs ==
    [title : {TitleA, Empty, UNDEF},
     description : {UNDEF, Str(<<97>>), Chars(MaxDescription + 1), Num(5)},
     deadline : {Iso(0), Iso(2), NotADate, UNDEF},
     priority : {UNDEF, Num(2), Num(0), Str(<<50>>)}]

InitFn ==
    /\ store = Absent
    /\ backup = Absent
    /\ writable = TRUE
    /\ now = 0
    /\ nextId = 1
    /\ res = NoRes
    /\ argTasks = <<>>
    /\ steps = 0
    /\ NoPage

\* the function op is applied to arg and returns value
ApplyFn(op, arg, value) ==
    /\ PureStep
    /\ res' = Returned(op, NULL, arg, [value |-> value])
    /\ UNCHANGED <<store, backup, writable, now, nextId>>

FnValidate ==
    /\ \E task \in ValidateInputs :
           ApplyFn("validateTask", task, validateTask(Obj(task), now))
    /\ UNCHANGED argTasks

\* the milliseconds remaining of the deadlines given to the urgency functions
RemainingMenu ==
    {0 - 2 * 60 * 60 * 1000, 0 - 60 * 1000, 0 - 30 * 1000, 0 - 1, 0, 1,
     30 * 1000, 60 * 1000 - 1, 60 * 1000,
     60 * 60 * 1000 - 1, 60 * 60 * 1000, 60 * 60 * 1000 + 1,
     3 * 60 * 60 * 1000 + 30 * 60 * 1000,
     6 * 60 * 60 * 1000 - 1, 6 * 60 * 60 * 1000, 6 * 60 * 60 * 1000 + 1,
     24 * 60 * 60 * 1000 - 1, 24 * 60 * 60 * 1000, 24 * 60 * 60 * 1000 + 1}

\* the values of now given to the urgency functions
NowMenu == {2 * 60 * 60 * 1000, 2 * 60 * 60 * 1000 + 1}

UrgencyInputs ==
    {[deadline |-> Iso(n + r), now |-> n] : n \in NowMenu, r \in RemainingMenu}
    \cup {[deadline |-> NotADate, now |-> n] : n \in NowMenu}

FnGetUrgencyColor ==
    /\ \E arg \in UrgencyInputs :
           ApplyFn("getUrgencyColor", arg, getUrgencyColor(arg.deadline, arg.now))
    /\ UNCHANGED argTasks

FnFormatRelativeTime ==
    /\ \E arg \in UrgencyInputs :
           ApplyFn("formatRelativeTime", arg,
                   [text |-> formatRelativeTime(arg.deadline, arg.now)])
    /\ UNCHANGED argTasks

\* the milliseconds remaining of the deadlines of the tasks given to
\* needsUrgentRefresh
RefreshRemainingMenu ==
    {0 - 2 * 60 * 60 * 1000, 0 - 1, 0, 60 * 60 * 1000 - 1, 60 * 60 * 1000,
     60 * 60 * 1000 + 1, 24 * 60 * 60 * 1000}

\* the collections of at most two tasks given to needsUrgentRefresh at now n
RefreshCollections(n) ==
    LET deadlines == {Iso(n + r) : r \in RefreshRemainingMenu} \cup {NotADate}
        tasks == {[deadline |-> d] : d \in deadlines}
    IN {<<>>} \cup {<<t>> : t \in tasks} \cup {<<t, u>> : t, u \in tasks}

FnNeedsUrgentRefresh ==
    /\ \E n \in NowMenu : \E tasks \in RefreshCollections(n) :
           ApplyFn("needsUrgentRefresh", [tasks |-> tasks, now |-> n],
                   Bool(needsUrgentRefresh(tasks, n)))
    /\ UNCHANGED argTasks

FnTick ==
    /\ PureStep
    /\ now' = now + 1
    /\ UNCHANGED <<store, backup, writable, nextId, res, argTasks>>

NextFn ==
    \/ FnValidate
    \/ FnGetUrgencyColor
    \/ FnFormatRelativeTime
    \/ FnNeedsUrgentRefresh
    \/ FnTick

SpecFn == InitFn /\ [][NextFn]_vars

(* ---------------- the App component (App.jsx) ---------------- *)
Minute == 60 * 1000
Hour == 60 * Minute

\* utils/version.js
CURRENT_VERSION == Str(<<49, 46, 48, 46, 48>>)
PreviousVersion == Str(<<48, 46, 57, 46, 48>>)

\* getStoredVersion(): the text under VERSION_KEY, null when there is none
getStoredVersion == versionItem

needsVersionUpdate ==
    IF getStoredVersion = NULL THEN TRUE ELSE getStoredVersion # CURRENT_VERSION

\* performVersionUpdate(): setStoredVersion(CURRENT_VERSION), which swallows the
\* exception of a setItem that throws; the item it leaves
performVersionUpdate == IF writable THEN CURRENT_VERSION ELSE versionItem

\* utils/demoMode.js
isLocalStorageAvailable == writable

TrueText == Str(<<116, 114, 117, 101>>)
FalseText == Str(<<102, 97, 108, 115, 101>>)

getDemoMode == demoItem = TrueText

\* setDemoMode(enabled): the item it leaves, the exception of setItem swallowed
setDemoMode(enabled) ==
    IF writable THEN (IF enabled THEN TrueText ELSE FalseText) ELSE demoItem

\* the examples of generateExampleTasks: minutes from now and priority
Examples ==
    <<[minutesFromNow |-> -48 * 60, priority |-> 1],
      [minutesFromNow |-> -3 * 60, priority |-> 2],
      [minutesFromNow |-> 45, priority |-> 1],
      [minutesFromNow |-> 2 * 60, priority |-> 1],
      [minutesFromNow |-> 8 * 60, priority |-> 1],
      [minutesFromNow |-> 24 * 60, priority |-> 2],
      [minutesFromNow |-> 72 * 60, priority |-> 3]>>

\* generateExampleTasks() at the clock value nowMs, uuidv4 giving the
\* identifiers from number firstId on; the i-th title is E i, the i-th description D i
generateExampleTasks(nowMs, firstId) ==
    [i \in 1..Len(Examples) |->
        Obj([id |-> uuidv4(firstId + i - 1),
             title |-> Str(<<69, i>>),
             description |-> Str(<<68, i>>),
             deadline |-> Iso(nowMs + Examples[i].minutesFromNow * Minute),
             priority |-> Num(Examples[i].priority),
             isCompleted |-> Bool(FALSE),
             createdAt |-> Iso(nowMs - 24 * Hour),
             lastModified |-> Iso(nowMs - 24 * Hour),
             schemaVersion |-> Num(1)])]

\* the auto-refresh effect run for the displayed tasks at the clock value nowMs:
\* the timer it leaves armed
autoRefreshAlwaysFive(tasks, nowMs) ==
    IF Len(tasks) = 0 THEN NoTimer
    ELSE [armed |-> TRUE, interval |-> 5 * 60 * 1000, due |-> nowMs + 5 * 60 * 1000]

autoRefresh(tasks, nowMs) ==
    IF Len(tasks) = 0 THEN NoTimer
    ELSE LET isUrgent == needsUrgentRefresh(tasks, nowMs)
             interval == IF isUrgent THEN 60 * 1000 ELSE 5 * 60 * 1000
         IN [armed |-> TRUE, interval |-> interval, due |-> nowMs + interval]

\* setTasks(tasks): the new array is displayed and the auto-refresh effect, which
\* depends on it, clears its timer and runs again
setTasks(a, tasks) == [a EXCEPT !.tasks = tasks, !.timer = autoRefresh(tasks, now)]

\* setInMemoryTasks(tasks) followed by setTasks(tasks)
setBoth(a, tasks) == setTasks([a EXCEPT !.inMemoryTasks = tasks], tasks)

Mounted == app.phase # "start"

InMemoryMode == app.demoMode \/ ~app.storageAvailable

\* tasks.filter(t => t.id !== taskId)
FilterOut(tasks, taskId) == SelectSeq(tasks, LAMBDA t : t.id # taskId)

\* the forms submitted: a deadline a minute ago, in half an hour, in 62 minutes
FormInputs ==
    {[title |-> TitleA, description |-> Empty, deadline |-> Iso(now + d * Minute),
      priority |-> Num(2)] : d \in {-1, 30, 62}}

\* the task lists importTasksFromJSON hands to handleImportSuccess
FileTasks ==
    {<<>>,
     <<Obj([id |-> ImportedId, title |-> TitleB, description |-> Empty,
            deadline |-> Iso(now + 2 * Hour), priority |-> Num(3),
            isCompleted |-> Bool(FALSE), createdAt |-> Iso(now - Hour),
            lastModified |-> Iso(now - Hour), schemaVersion |-> Num(1)])>>}

\* the time that passes between two events
Delays == {Minute, 5 * Minute}

InitApp ==
    /\ store \in {Absent, Corrupt}
    /\ backup = Absent
    /\ writable \in BOOLEAN
    /\ now = 48 * Hour
    /\ nextId = 1
    /\ res = NoRes
    /\ argTasks = <<>>
    /\ steps = 0
    /\ app = NoApp
    /\ versionItem \in {NULL, PreviousVersion, CURRENT_VERSION}
    /\ demoItem \in {NULL, TrueText}
    /\ prefsItem = Absent
    /\ tabs = [t \in Tabs |-> IdleTab]
    /\ view = NoView

AppStep ==
    /\ steps < MaxSteps
    /\ steps' = steps + 1
    /\ UNCHANGED <<writable, argTasks, prefsItem, tabs, view>>

\* the event handled is recorded in res
Event(name) == res' = [NoRes EXCEPT !.op = name]

\* getAllTasks() is called: the backup item getFromStorage leaves
ReadsTaskKey == backup' \in backupAfterGet(store, backup)

\* the mount effect, the component being constructed with its initial state
\* (demoMode from getDemoMode())
Mount ==
    /\ AppStep
    /\ app.phase = "start"
    /\ LET hasStorage == isLocalStorageAvailable
           a == [app EXCEPT !.storageAvailable = hasStorage, !.demoMode = getDemoMode]
       IN IF needsVersionUpdate
          THEN /\ versionItem' = performVersionUpdate
               /\ app' = [a EXCEPT !.phase = "updating"]
               /\ UNCHANGED <<store, backup, nextId>>
          ELSE /\ UNCHANGED versionItem
               /\ IF getDemoMode
                  THEN /\ app' = setBoth([a EXCEPT !.phase = "loaded"],
                                         generateExampleTasks(now, nextId))
                       /\ nextId' = nextId + Len(Examples)
                       /\ UNCHANGED <<store, backup>>
                  ELSE IF ~hasStorage
                  THEN /\ app' = setBoth([a EXCEPT !.phase = "loaded"], <<>>)
                       /\ UNCHANGED <<store, backup, nextId>>
                  ELSE /\ app' = setTasks([a EXCEPT !.phase = "loaded"], getAllTasks)
                       /\ ReadsTaskKey
                       /\ UNCHANGED <<store, nextId>>
    /\ Event("mount")
    /\ UNCHANGED <<now, demoItem>>

\* the timeout of the version update: window.location.reload().  reloads counts
\* the reloads of the page.
Reload ==
    /\ AppStep
    /\ app.phase = "updating"
    /\ app' = [NoApp EXCEPT !.reloads = app.reloads + 1]
    /\ Event("reload")
    /\ UNCHANGED <<store, backup, now, nextId, versionItem, demoItem>>

HandleAddTask ==
    /\ AppStep
    /\ Mounted
    /\ \E formData \in FormInputs :
           IF isInPast(formData.deadline.v, now)
           THEN UNCHANGED <<store, backup, nextId, app>>
           ELSE LET c == createTask(formData)
                    afterSave == getFromStorage(c.store)
                IN /\ store' = c.store
                   /\ ReadsTaskKey
                   /\ nextId' = IF c.result.success THEN nextId + 1 ELSE nextId
                   /\ app' = IF ~c.result.success THEN app
                             ELSE IF InMemoryMode
                             THEN setBoth(app, Append(app.inMemoryTasks, c.result.task))
                             ELSE setTasks(app, afterSave)
    /\ Event("handleAddTask")
    /\ UNCHANGED <<now, versionItem, demoItem>>

\* the task edited is one of those displayed (handleEditTask)
HandleUpdateTask ==
    /\ AppStep
    /\ Mounted
    /\ \E i \in 1..Len(app.tasks), formData \in FormInputs :
           LET taskId == app.tasks[i].id
           IN IF isInPast(formData.deadline.v, now)
              THEN UNCHANGED <<store, backup, app>>
              ELSE IF InMemoryMode
              THEN /\ app' = setBoth(app,
                         [j \in 1..Len(app.inMemoryTasks) |->
                             IF app.inMemoryTasks[j].id = taskId
                             THEN Spread(app.inMemoryTasks[j],
                                         [title |-> formData.title,
                                          description |-> formData.description,
                                          deadline |-> formData.deadline,
                                          priority |-> formData.priority,
                                          lastModified |-> getCurrentUTC(now)])
                             ELSE app.inMemoryTasks[j]])
                   /\ UNCHANGED <<store, backup>>
              ELSE LET c == updateTask(taskId, formData)
                   IN /\ store' = c.store
                      /\ ReadsTaskKey
                      /\ app' = IF c.result.success
                                THEN setTasks(app, getFromStorage(c.store))
                                ELSE app
    /\ Event("handleUpdateTask")
    /\ UNCHANGED <<now, nextId, versionItem, demoItem>>

\* the confirmed deletion of a displayed task; handleCompleteTask runs the same
\* code (removeTask is deleteTask in both)
RemoveDisplayed ==
    \E i \in 1..Len(app.tasks) :
        LET taskId == app.tasks[i].id
        IN IF InMemoryMode
           THEN /\ app' = setBoth(app, FilterOut(app.inMemoryTasks, taskId))
                /\ UNCHANGED <<store, backup>>
           ELSE LET c == deleteTask(taskId)
                IN /\ store' = c.store
                   /\ ReadsTaskKey
                   /\ app' = IF c.result.success
                             THEN setTasks(app, getFromStorage(c.store))
                             ELSE app

HandleDeleteTask ==
    /\ AppStep
    /\ Mounted
    /\ RemoveDisplayed
    /\ Event("handleDeleteTask")
    /\ UNCHANGED <<now, nextId, versionItem, demoItem>>

HandleCompleteTask ==
    /\ AppStep
    /\ Mounted
    /\ RemoveDisplayed
    /\ Event("handleCompleteTask")
    /\ UNCHANGED <<now, nextId, versionItem, demoItem>>

HandleDemoModeToggle ==
    /\ AppStep
    /\ Mounted
    /\ \E enabled \in BOOLEAN :
           /\ demoItem' = setDemoMode(enabled)
           /\ IF enabled
              THEN /\ app' = setBoth([app EXCEPT !.demoMode = TRUE],
                                     generateExampleTasks(now, nextId))
                   /\ nextId' = nextId + Len(Examples)
                   /\ UNCHANGED backup
              ELSE IF app.storageAvailable
              THEN /\ app' = setTasks([app EXCEPT !.demoMode = FALSE,
                                                  !.inMemoryTasks = <<>>], getAllTasks)
                   /\ ReadsTaskKey
                   /\ UNCHANGED nextId
              ELSE /\ app' = setBoth([app EXCEPT !.demoMode = FALSE], <<>>)
                   /\ UNCHANGED <<backup, nextId>>
    /\ Event("handleDemoModeToggle")
    /\ UNCHANGED <<store, now, versionItem>>

HandleImportSuccess ==
    /\ AppStep
    /\ Mounted
    /\ \E importedTasks \in FileTasks :
           IF InMemoryMode
           THEN /\ app' = setBoth(app, importedTasks)
                /\ UNCHANGED <<store, backup>>
           ELSE LET save == saveToStorage(store, importedTasks)
                IN /\ store' = save.item
                   /\ UNCHANGED backup
                   /\ app' = IF save.saved
                             THEN setTasks(app, getFromStorage(save.item))
                             ELSE app
    /\ Event("handleImportSuccess")
    /\ UNCHANGED <<now, nextId, versionItem, demoItem>>

\* the interval of the auto-refresh effect elapses: setTasks(getAllTasks())
PollTick ==
    /\ AppStep
    /\ Mounted
    /\ app.timer.armed
    /\ now = app.timer.due
    /\ app' = setTasks(app, getAllTasks)
    /\ ReadsTaskKey
    /\ Event("pollTick")
    /\ UNCHANGED <<store, now, nextId, versionItem, demoItem>>

\* time passes, an armed timer firing when it is due
Advance ==
    /\ AppStep
    /\ \E d \in Delays :
           /\ app.timer.armed => now + d <= app.timer.due
           /\ now' = now + d
    /\ Event("advance")
    /\ UNCHANGED <<store, backup, nextId, app, versionItem, demoItem>>

NextApp ==
    \/ Mount
    \/ Reload
    \/ HandleAddTask
    \/ HandleUpdateTask
    \/ HandleDeleteTask
    \/ HandleCompleteTask
    \/ HandleDemoModeToggle
    \/ HandleImportSuccess
    \/ PollTick
    \/ Advance

SpecApp == InitApp /\ [][NextApp]_vars

(* ---------------- preferences (utils/preferences.js, utils/density.js, utils/datetime.js) ---------------- *)
\* The preferences object has the members sortMode, density and theme and may
\* hold others (otherSetting); a member it does not have reads as "undefined".
\* Its JSON text is the sequence of the members it has.
PrefKeys == <<"sortMode", "density", "theme", "otherSetting">>

PrefKeySet == {PrefKeys[i] : i \in 1..Len(PrefKeys)}

\* {}
EmptyPrefs == [k \in PrefKeySet |-> "undefined"]

\* JSON.stringify(prefs)
StringifyPrefs(prefs) ==
    SelectSeq([i \in 1..Len(PrefKeys) |-> [key |-> PrefKeys[i], value |-> prefs[PrefKeys[i]]]],
              LAMBDA member : member.value # "undefined")

\* JSON.parse(text) of the text of an object
ParsePrefs(text) ==
    [k \in PrefKeySet |->
        IF \E i \in 1..Len(text) : text[i].key = k
        THEN text[CHOOSE i \in 1..Len(text) : text[i].key = k].value
        ELSE "undefined"]

\* the item whose text is null: JSON.parse gives null, which has no members
NullItem == [kind |-> "null", text |-> <<>>]

\* getFromStorage(STORAGE_KEYS.PREFS, {}) where the text is absent, does not
\* parse (no backup is made for this key) or is the text of an object
getPrefs(item) == IF item.kind = "json" THEN ParsePrefs(item.text) ELSE EmptyPrefs

\* prefs[key] = value and saveToStorage(STORAGE_KEYS.PREFS, prefs); with prefs
\* null the assignment raises TypeError, which the caller's try block catches
savePref(item, key, value) ==
    IF item.kind = "null" \/ ~writable THEN [result |-> FALSE, item |-> item]
    ELSE [result |-> TRUE,
          item |-> JsonItem(StringifyPrefs([getPrefs(item) EXCEPT ![key] = value]))]

\* setSortMode saving an object that holds the sort mode alone
setSortModeAlone(item, sortMode) ==
    IF sortMode # SORT_MODES.DEADLINE /\ sortMode # SORT_MODES.PRIORITY
    THEN [result |-> FALSE, item |-> item]
    ELSE IF ~writable THEN [result |-> FALSE, item |-> item]
    ELSE [result |-> TRUE,
          item |-> JsonItem(StringifyPrefs([EmptyPrefs EXCEPT !["sortMode"] = sortMode]))]

setSortMode(item, sortMode) ==
    IF sortMode # SORT_MODES.DEADLINE /\ sortMode # SORT_MODES.PRIORITY
    THEN [result |-> FALSE, item |-> item]
    ELSE savePref(item, "sortMode", sortMode)

DENSITY_MODES == [COMPACT |-> "compact", COMFORTABLE |-> "comfortable",
                  SPACIOUS |-> "spacious"]

setDensity(item, density) ==
    IF /\ density # DENSITY_MODES.COMPACT
       /\ density # DENSITY_MODES.COMFORTABLE
       /\ density # DENSITY_MODES.SPACIOUS
    THEN [result |-> FALSE, item |-> item]
    ELSE savePref(item, "density", density)

VALID_THEMES == {"light", "dark", "system"}

\* setThemePreference(theme) returns nothing (result is FALSE throughout).  It
\* reads the text itself: text that does not parse makes JSON.parse throw, and
\* the catch leaves the item as it is.
setThemePreference(item, theme) ==
    IF theme \notin VALID_THEMES THEN [result |-> FALSE, item |-> item]
    ELSE IF item.kind = "corrupt" THEN [result |-> FALSE, item |-> item]
    ELSE [result |-> FALSE, item |-> savePref(item, "theme", theme).item]

\* the preference items the setters start from
PrefsItems ==
    {Absent, Corrupt, NullItem,
     JsonItem(<<>>),
     JsonItem(<<[key |-> "otherSetting", value |-> "value"]>>),
     JsonItem(<<[key |-> "sortMode", value |-> "priority"],
                [key |-> "otherSetting", value |-> "value"]>>),
     JsonItem(<<[key |-> "sortMode", value |-> "deadline"],
                [key |-> "density", value |-> "compact"],
                [key |-> "theme", value |-> "dark"]>>)}

InitPrefs ==
    /\ store = Absent
    /\ backup = Absent
    /\ writable \in BOOLEAN
    /\ now = 0
    /\ nextId = 1
    /\ res = NoRes
    /\ argTasks = <<>>
    /\ steps = 0
    /\ app = NoApp
    /\ versionItem = NULL
    /\ demoItem = NULL
    /\ prefsItem \in PrefsItems
    /\ tabs = [t \in Tabs |-> IdleTab]
    /\ view = NoView

\* the setter op is called with value and gives r
ApplyPrefs(op, value, r) ==
    /\ prefsItem' = r.item
    /\ res' = [NoRes EXCEPT !.op = op, !.arg = [text |-> value], !.success = r.result,
                            !.input = prefsItem]
    /\ UNCHANGED <<store, backup, writable, now, nextId, argTasks, steps,
                   app, versionItem, demoItem, tabs, view>>

SetSortMode ==
    \E sortMode \in {"deadline", "priority", "invalid"} :
        ApplyPrefs("setSortMode", sortMode, setSortMode(prefsItem, sortMode))

SetDensity ==
    \E density \in {"compact", "comfortable", "spacious", "INVALID_MODE"} :
        ApplyPrefs("setDensity", density, setDensity(prefsItem, density))

SetThemePreference ==
    \E theme \in {"light", "dark", "system", "invalid"} :
        ApplyPrefs("setThemePreference", theme, setThemePreference(prefsItem, theme))

\* the storage quota is reached, or space is freed
PrefsQuotaChange ==
    /\ writable' = ~writable
    /\ res' = [NoRes EXCEPT !.op = "quotaChange", !.input = prefsItem]
    /\ UNCHANGED <<store, backup, now, nextId, argTasks, steps, appVars>>

NextPrefs ==
    \/ SetSortMode
    \/ SetDensity
    \/ SetThemePreference
    \/ PrefsQuotaChange

SpecPrefs == InitPrefs /\ [][NextPrefs]_vars

(* ---------------- createTask in two tabs (utils/taskStorage.js) ---------------- *)
\* Each tab runs createTask on its own thread over the same localStorage: the
\* getItem of getAllTasks() and the setItem of saveToStorage are separate steps
\* between which the other tab may run.

\* the array saveToStorage is given: the one read, with the task pushed
tasksSavedRereading(tab) == Append(getAllTasks, tab.result.task)

tasksSaved(tab) == tab.tasks

InitTabs ==
    /\ store = Absent
    /\ backup = Absent
    /\ writable \in BOOLEAN
    /\ now = 0
    /\ nextId = 1
    /\ res = NoRes
    /\ argTasks = <<>>
    /\ steps = 0
    /\ app = NoApp
    /\ versionItem = NULL
    /\ demoItem = NULL
    /\ prefsItem = Absent
    /\ tabs = [t \in Tabs |-> IdleTab]
    /\ view = NoView

TabStep ==
    /\ steps < MaxSteps
    /\ steps' = steps + 1
    /\ UNCHANGED <<backup, writable, now, res, argTasks, app, versionItem, demoItem,
                   prefsItem, view>>

\* createTask up to tasks.push(result.task): processNewTask, and getAllTasks()
\* when it succeeded
TabRead(t) ==
    /\ TabStep
    /\ tabs[t].pc # "read"
    /\ \E taskData \in CreateInputs :
           LET result == processNewTask(taskData, uuidv4(nextId), now)
           IN IF ~result.success
              THEN /\ tabs' = [tabs EXCEPT ![t] = [pc |-> "done", tasks |-> <<>>,
                                                   result |-> result]]
                   /\ UNCHANGED nextId
              ELSE /\ tabs' = [tabs EXCEPT ![t] =
                                  [pc |-> "read",
                                   tasks |-> Append(getAllTasks, result.task),
                                   result |-> result]]
                   /\ nextId' = nextId + 1
    /\ UNCHANGED store

\* the rest of createTask: saveToStorage(STORAGE_KEYS.TASKS, tasks) and the return
TabWrite(t) ==
    /\ TabStep
    /\ tabs[t].pc = "read"
    /\ LET save == saveToStorage(store, tasksSaved(tabs[t]))
       IN /\ store' = save.item
          /\ tabs' = [tabs EXCEPT ![t] =
                         [pc |-> "done", tasks |-> tabs[t].tasks,
                          result |-> IF save.saved THEN tabs[t].result
                                     ELSE [success |-> FALSE, task |-> NULL,
                                           errors |-> <<"Failed to save task to storage">>]]]
    /\ UNCHANGED nextId

NextTabs ==
    \/ \E t \in Tabs : TabRead(t)
    \/ \E t \in Tabs : TabWrite(t)

SpecTabs == InitTabs /\ [][NextTabs]_vars

(* ---------------- responsive density (utils/responsiveDensity.js, App.jsx) ---------------- *)
WIDTH_THRESHOLDS == [COMPACT |-> 980, COMFORTABLE |-> 760]

getAvailableDensities(width) ==
    (IF width >= WIDTH_THRESHOLDS.COMPACT THEN <<DENSITY_MODES.COMPACT>> ELSE <<>>)
    \o (IF width >= WIDTH_THRESHOLDS.COMFORTABLE THEN <<DENSITY_MODES.COMFORTABLE>>
        ELSE <<>>)
    \o <<DENSITY_MODES.SPACIOUS>>

\* availableDensities.includes(density)
Includes(availableDensities, density) ==
    \E i \in 1..Len(availableDensities) : availableDensities[i] = density

shouldDemoteDensity(currentDensity, availableDensities) ==
    ~Includes(availableDensities, currentDensity)

\* getDemotedDensity taking one step down the order whatever is available
getDemotedDensityOneStep(currentDensity, availableDensities) ==
    IF Includes(availableDensities, currentDensity) THEN currentDensity
    ELSE IF currentDensity = DENSITY_MODES.COMPACT THEN DENSITY_MODES.COMFORTABLE
    ELSE DENSITY_MODES.SPACIOUS

getDemotedDensity(currentDensity, availableDensities) ==
    IF Includes(availableDensities, currentDensity) THEN currentDensity
    ELSE IF currentDensity = DENSITY_MODES.COMPACT
    THEN IF Includes(availableDensities, DENSITY_MODES.COMFORTABLE)
         THEN DENSITY_MODES.COMFORTABLE
         ELSE DENSITY_MODES.SPACIOUS
    ELSE IF currentDensity = DENSITY_MODES.COMFORTABLE THEN DENSITY_MODES.SPACIOUS
    ELSE DENSITY_MODES.SPACIOUS

\* getDensity(): the stored density if it is one of the three, else comfortable
getDensity(item) ==
    LET density == getPrefs(item).density
    IN IF \/ density = DENSITY_MODES.COMPACT
          \/ density = DENSITY_MODES.COMFORTABLE
          \/ density = DENSITY_MODES.SPACIOUS
       THEN density
       ELSE DENSITY_MODES.COMFORTABLE

\* the viewport widths: either side of each threshold
Widths == {WIDTH_THRESHOLDS.COMFORTABLE - 1, WIDTH_THRESHOLDS.COMFORTABLE,
           WIDTH_THRESHOLDS.COMPACT - 1, WIDTH_THRESHOLDS.COMPACT}

\* The component is rendered for the first time: density is getDensity() and
\* the auto-demote effect has yet to run.
InitDensity ==
    /\ store = Absent
    /\ backup = Absent
    /\ writable \in BOOLEAN
    /\ now = 0
    /\ nextId = 1
    /\ res = NoRes
    /\ argTasks = <<>>
    /\ steps = 0
    /\ app = NoApp
    /\ versionItem = NULL
    /\ demoItem = NULL
    /\ prefsItem \in {Absent, Corrupt,
                      JsonItem(<<[key |-> "density", value |-> "compact"]>>),
                      JsonItem(<<[key |-> "density", value |-> "spacious"],
                                 [key |-> "otherSetting", value |-> "value"]>>)}
    /\ tabs = [t \in Tabs |-> IdleTab]
    /\ \E width \in Widths :
           view = [width |-> width, density |-> getDensity(prefsItem), ran |-> FALSE]

\* the event name is handled, the density having been previous before
DensityEvent(name, previous) ==
    /\ res' = [NoRes EXCEPT !.op = name, !.arg = [text |-> previous]]
    /\ UNCHANGED <<store, backup, writable, now, nextId, argTasks, steps,
                   app, versionItem, demoItem, tabs>>

\* the window is resized: useViewportWidth gives the new width, the component
\* renders again and the effect, which depends on availableDensities, is due
Resize ==
    /\ \E width \in Widths \ {view.width} :
           view' = [view EXCEPT !.width = width, !.ran = FALSE]
    /\ DensityEvent("resize", view.density)
    /\ UNCHANGED prefsItem

\* handleDensityChange(newDensity), from one of the buttons DensityControl
\* shows: those of the available densities
HandleDensityChange ==
    /\ \E i \in 1..Len(getAvailableDensities(view.width)) :
           LET newDensity == getAvailableDensities(view.width)[i]
           IN /\ prefsItem' = setDensity(prefsItem, newDensity).item
              /\ view' = [view EXCEPT !.density = newDensity, !.ran = FALSE]
    /\ DensityEvent("handleDensityChange", view.density)

\* the auto-demote effect runs; when it sets the density state the component
\* renders again and the effect is due once more
AutoDemote ==
    /\ ~view.ran
    /\ LET availableDensities == getAvailableDensities(view.width)
       IN IF shouldDemoteDensity(view.density, availableDensities)
          THEN LET demoted == getDemotedDensity(view.density, availableDensities)
               IN /\ prefsItem' = setDensity(prefsItem, demoted).item
                  /\ view' = [view EXCEPT !.density = demoted, !.ran = FALSE]
          ELSE /\ view' = [view EXCEPT !.ran = TRUE]
               /\ UNCHANGED prefsItem
    /\ DensityEvent("autoDemote", view.density)

NextDensity ==
    \/ Resize
    \/ HandleDensityChange
    \/ AutoDemote

SpecDensity == InitDensity /\ [][NextDensity]_vars

(* ---------------- properties of the stored collection ---------------- *)
\* the step is a call of op
Called(op) ==
    /\ steps' = steps + 1
    /\ UNCHANGED <<now, writable>>
    /\ res'.op = op

\* C1 as claimed: no two tasks of the stored collection have the same id.
StoredIdsUnique ==
    \A i, j \in 1..Len(getAllTasks) :
        i # j => getAllTasks[i].id # getAllTasks[j].id

\* C2: updateTask never persists a failed update.  When no stored task has the
\* id, or the merged task fails validation, it returns success:false, task:null
\* and leaves the task item as it was; whenever it returns success:false the
\* item is as it was; when it returns success:true the tasks with another id
\* are unchanged, in the same places, and the task with the id is the returned one.
UpdateNeverPersistsFailure ==
    [][Called("updateTask") =>
        LET old == getFromStorage(store)
            new == getFromStorage(store')
            id == res'.id
            existing == getTaskById(old, id)
        IN /\ (existing = NULL \/ ~processTaskUpdate(existing, res'.arg, now).success)
                 => ~res'.success
           /\ ~res'.success => res'.task = NULL /\ store' = store
           /\ res'.success =>
                 /\ Len(new) = Len(old)
                 /\ \A i \in 1..Len(old) :
                       /\ old[i].id # id => new[i] = old[i]
                       /\ old[i].id = id => new[i] = res'.task]_vars

\* C2 witness: an update of a stored task was rejected by validation.
UpdateRejectedWitness ==
    /\ res.op = "updateTask"
    /\ ~res.success
    /\ res.errors = <<"Title cannot be empty or whitespace">>
    /\ Len(getAllTasks) >= 1

\* C3: createTask returns success:true exactly when the new task has been
\* appended to the stored collection; when validation fails or the write fails
\* it returns success:false, task:null and the task item is as it was.
CreateSucceedsIffAppended ==
    [][Called("createTask") =>
        LET old == getFromStorage(store)
            new == getFromStorage(store')
            valid == processNewTask(res'.arg, uuidv4(nextId), now).success
        IN /\ res'.success <=> (res'.task # NULL /\ new = Append(old, res'.task))
           /\ (~valid \/ ~writable) => ~res'.success
           /\ ~res'.success => res'.task = NULL /\ store' = store]_vars

\* C3 witness: createTask of a valid task failed because the write failed.
CreateSaveFailedWitness ==
    /\ res.op = "createTask"
    /\ ~res.success
    /\ res.errors = <<"Failed to save task to storage">>

\* C6: markTaskComplete(tasks, id) returns the same success flag, collection
\* and errors as removeTaskById(tasks, id), for the stored collection and every
\* id; completeTask(id) and deleteTask(id) return the same and leave the same item.
CompleteEqualsRemove ==
    \A id \in Ids :
        LET m == markTaskComplete(getAllTasks, id)
            r == removeTaskById(getAllTasks, id)
        IN /\ m.success = r.success
           /\ m.tasks = r.tasks
           /\ m.errors = r.errors
           /\ completeTask(id).store = deleteTask(id).store
           /\ completeTask(id).result = deleteTask(id).result

\* C6 witness: completeTask removed a task and other tasks remain stored.
CompleteWitness ==
    /\ res.op = "completeTask"
    /\ res.success
    /\ Len(getAllTasks) >= 1

\* C9 as claimed: every task of the stored collection has isCompleted false.
StoredNotCompleted ==
    \A i \in 1..Len(getAllTasks) : getAllTasks[i].isCompleted = Bool(FALSE)

(* ---------------- properties of the pure functions ---------------- *)
\* C4: a successful processTaskUpdate returns a task with the id and the
\* createdAt of the existing task, whatever the updates hold; along a chain of
\* updates the id and createdAt of every task of the collection stay the same.
UpdateKeepsIdentity ==
    [][/\ \A i \in 1..Len(argTasks) :
             /\ i <= Len(argTasks')
             /\ argTasks'[i].id = argTasks[i].id
             /\ argTasks'[i].createdAt = argTasks[i].createdAt
       /\ (Called("processTaskUpdate") /\ res'.success) =>
             /\ res'.task.id = res'.arg.existing.id
             /\ res'.task.createdAt = res'.arg.existing.createdAt]_vars

\* C4 witness: an update that carried another id and createdAt succeeded.
UpdateWithIdWitness ==
    /\ res.op = "processTaskUpdate"
    /\ res.success
    /\ "id" \in DOMAIN res.arg.updates
    /\ res.arg.updates.id # res.arg.existing.id
    /\ res.arg.updates.createdAt # res.arg.existing.createdAt

ImportAlwaysReturns ==
    [][Called("processImportedTasks") =>
        /\ res'.arg.isArray => ~res'.threw /\ res'.success
        /\ ~res'.arg.isArray =>
              /\ ~res'.threw
              /\ ~res'.success
              /\ res'.tasks = argTasks
              /\ res'.imported = 0
              /\ res'.errors = <<"Invalid import data: expected an array">>]_vars

\* the tasks of the collection all pass validateTask at the clock value clock
AllValid(tasks, clock) ==
    \A i \in 1..Len(tasks) : validateTask(tasks[i], clock).valid

\* C8 as claimed: exporting a collection of valid tasks and importing the text
\* into the empty collection gives imported = the number of tasks, no errors,
\* and the same tasks in the same order.
ExportImportRoundTrip ==
    [][(Called("exportImport") /\ AllValid(argTasks, now)) =>
        /\ ~res'.threw
        /\ res'.imported = Len(argTasks)
        /\ res'.errors = <<>>
        /\ res'.tasks = argTasks]_vars

\* what an import makes of a valid task: a null or absent description becomes
\* the empty string and schemaVersion becomes 1
AsImported(task) ==
    [task EXCEPT !.description = IF @.t \in {"null", "undefined"} THEN Str(<<>>) ELSE @,
                 !.schemaVersion = Num(1)]

\* C8 amended: ... and the same tasks in the same order, except that a null or
\* absent description comes back as "" and schemaVersion comes back as 1.
ExportImportRoundTripAsImported ==
    [][(Called("exportImport") /\ AllValid(argTasks, now)) =>
        /\ ~res'.threw
        /\ res'.imported = Len(argTasks)
        /\ res'.errors = <<>>
        /\ Len(res'.tasks) = Len(argTasks)
        /\ \A i \in 1..Len(argTasks) : res'.tasks[i] = AsImported(argTasks[i])]_vars

\* C8 witness: two valid tasks, one with a null description, were exported and
\* imported.
ExportImportWitness ==
    /\ res.op = "exportImport"
    /\ Len(res.arg) = 2
    /\ res.imported = 2
    /\ \E i \in 1..2 : res.arg[i].description = NULL

\* the priority of the task is one of the numbers 1, 2, 3
PriorityOk(task) == task.priority \in {Num(p) : p \in PriorityValues}

\* C10 as claimed: every task accepted by processNewTask, processTaskUpdate or
\* processImportedTasks has a priority that is one of 1, 2, 3, also when the
\* priority given is omitted, null or 0.
AcceptedPriorityInRange ==
    [][/\ (Called("processNewTask") /\ res'.success) => PriorityOk(res'.task)
       /\ (Called("processTaskUpdate") /\ res'.success) => PriorityOk(res'.task)
       /\ (Called("processImportedTasks") /\ res'.success) =>
             \A i \in (Len(argTasks) + 1)..Len(res'.tasks) :
                 PriorityOk(res'.tasks[i])]_vars

\* the first n characters of the string value s (s itself when it is shorter)
FirstChars(s, n) == Str(SubSeq(s.v, 1, IF Len(s.v) < n THEN Len(s.v) ELSE n))

\* the description is not a string of more than 300 characters
DescriptionCapped(task) ==
    task.description.t = "string" => Len(task.description.v) <= 300

\* the errors hold no complaint about the length of a description
NoLengthError(errors) ==
    \A i \in 1..Len(errors) :
        errors[i] \notin {"Description must be 300 characters or less",
                          "Task 1: Description must be 300 characters or less",
                          "Task 2: Description must be 300 characters or less"}

\* C11: every task accepted by processNewTask, processTaskUpdate or
\* processImportedTasks has a description of at most 300 characters; a longer
\* description given is cut to its first 300 characters and is never a reason
\* for rejecting the operation.
DescriptionAtMost300 ==
    [][/\ Called("processNewTask") =>
             /\ NoLengthError(res'.errors)
             /\ res'.success =>
                   /\ res'.task.description.t = "string"
                   /\ DescriptionCapped(res'.task)
                   /\ res'.arg.description.t = "string" =>
                         res'.task.description = FirstChars(res'.arg.description, 300)
       /\ Called("processTaskUpdate") =>
             /\ NoLengthError(res'.errors)
             /\ res'.success =>
                   /\ DescriptionCapped(res'.task)
                   /\ ("description" \in DOMAIN res'.arg.updates
                         /\ res'.arg.updates.description.t = "string") =>
                         res'.task.description =
                             FirstChars(res'.arg.updates.description, 300)
       /\ (Called("processImportedTasks") /\ ~res'.threw) =>
             /\ NoLengthError(res'.errors)
             /\ \A i \in 1..Len(res'.tasks) : DescriptionCapped(res'.tasks[i])]_vars

\* C11 witness: a new task given a description of 301 characters was accepted
\* with its first 300.
DescriptionCutWitness ==
    /\ res.op = "processNewTask"
    /\ res.success
    /\ res.arg.description.t = "string"
    /\ Len(res.arg.description.v) = 301
    /\ Len(res.task.description.v) = 300

\* the instant of the timestamp a is not after that of the timestamp b
NotAfter(a, b) ==
    /\ a.t = "string" /\ b.t = "string"
    /\ ParseDate(a.v) # NaN /\ ParseDate(b.v) # NaN
    /\ ParseDate(a.v) <= ParseDate(b.v)

\* C12: the clock never going backwards, a task produced by processNewTask has
\* createdAt equal to lastModified, and after any chain of successful
\* processTaskUpdate calls (updates holding createdAt or lastModified included)
\* its createdAt is not after its lastModified.
CreatedNotAfterModified ==
    [][/\ now' >= now
       /\ (Called("processNewTask") /\ res'.success) =>
             /\ res'.task.createdAt = res'.task.lastModified
             /\ res'.task.createdAt = getCurrentUTC(now)
       /\ (Called("processTaskUpdate") /\ res'.success) =>
             /\ NotAfter(res'.task.createdAt, res'.task.lastModified)
             /\ res'.task.lastModified = getCurrentUTC(now)
       /\ \A i \in 1..Len(argTasks') :
             NotAfter(argTasks'[i].createdAt, argTasks'[i].lastModified)]_vars

\* C12 witness: a task produced by processNewTask was updated with updates
\* holding a createdAt after the time of the update.
UpdatedAfterCreateWitness ==
    /\ res.op = "processTaskUpdate"
    /\ res.success
    /\ res.arg.existing.id = uuidv4(3)
    /\ "createdAt" \in DOMAIN res.arg.updates
    /\ ~NotAfter(res.arg.updates.createdAt, res.task.lastModified)

\* the error messages of the validations of the sequence rs that fail, in order
FailingMessages(rs) ==
    LET failing == SelectSeq(rs, LAMBDA r : ~r.valid)
    IN [i \in 1..Len(failing) |-> failing[i].error]

\* C13: validateTask runs all four validations: its errors are the messages of
\* those of validateTitle, validateDescription, validateDeadline and
\* validatePriority that fail, in that order; valid is true iff there are none;
\* a task with all four fields invalid has exactly 4 errors.
ValidateCollectsAll ==
    [][Called("validateTask") =>
        LET task == res'.arg
            checks == <<validateTitle(task.title),
                        validateDescription(task.description),
                        validateDeadline(task.deadline, now),
                        validatePriority(task.priority)>>
        IN /\ res'.value.errors = FailingMessages(checks)
           /\ res'.value.valid = (res'.value.errors = <<>>)
           /\ (\A i \in 1..4 : ~checks[i].valid) => Len(res'.value.errors) = 4]_vars

\* C13 witness: the task of the test (empty title, 301 characters, a deadline in
\* the past, priority 0) was validated and has 4 errors.
FourErrorsWitness ==
    /\ res.op = "validateTask"
    /\ res.arg = [title |-> Empty, description |-> Chars(MaxDescription + 1),
                  deadline |-> Iso(0), priority |-> Num(0)]
    /\ now = 1
    /\ res.value.errors =
           <<"Title cannot be empty or whitespace",
             "Description must be 300 characters or less",
             "Deadline cannot be in the past",
             "Priority must be 1 (High), 2 (Medium), or 3 (Low)">>

(* ---------------- properties of the sort functions ---------------- *)
\* the arrays a and b hold the same tasks, each as many times
SameTasks(a, b) ==
    /\ Len(a) = Len(b)
    /\ \A i \in 1..Len(a) :
          Cardinality({j \in 1..Len(a) : a[j] = a[i]})
              = Cardinality({j \in 1..Len(b) : b[j] = a[i]})

\* the instant of a deadline or createdAt value that parses
Instant(value) == ParseDate(value.v)

ValidDates(tasks) ==
    \A i \in 1..Len(tasks) :
        /\ tasks[i].deadline.t = "string" /\ Instant(tasks[i].deadline) # NaN
        /\ tasks[i].createdAt.t = "string" /\ Instant(tasks[i].createdAt) # NaN

\* (deadline, createdAt) of a is less than or equal to that of b
DeadlinePairLeq(a, b) ==
    \/ Instant(a.deadline) < Instant(b.deadline)
    \/ /\ Instant(a.deadline) = Instant(b.deadline)
       /\ Instant(a.createdAt) <= Instant(b.createdAt)

\* C14: for a non-empty array of tasks with valid deadlines and createdAt
\* values, sortByDeadline returns a permutation of the input in which the
\* (deadline, createdAt) pair of each task is less than or equal to that of the
\* next.
SortByDeadlineOrdered ==
    [][(res'.op = "sortByDeadline" /\ res'.arg.isArray /\ Len(res'.arg.items) > 0
          /\ ValidDates(res'.arg.items)) =>
        /\ res'.value.isArray
        /\ SameTasks(res'.value.items, res'.arg.items)
        /\ \A k \in 1..(Len(res'.value.items) - 1) :
              DeadlinePairLeq(res'.value.items[k], res'.value.items[k + 1])]_vars

\* C14 witness: three tasks were sorted by deadline into another order, two of
\* them with the same deadline.
SortByDeadlineWitness ==
    /\ res.op = "sortByDeadline"
    /\ Len(res.arg.items) = 3
    /\ res.value.items # res.arg.items
    /\ res.value.items[1].deadline = res.value.items[2].deadline
    /\ res.value.items[1].createdAt # res.value.items[2].createdAt
    /\ res.value.items[2].deadline # res.value.items[3].deadline

\* (priority, deadline, createdAt) of a is less than or equal to that of b
PriorityTripleLeq(a, b) ==
    /\ a.priority.t = "number" /\ b.priority.t = "number"
    /\ \/ a.priority.v[1] < b.priority.v[1]
       \/ a.priority.v[1] = b.priority.v[1] /\ DeadlinePairLeq(a, b)

\* C15 as claimed: for every non-empty task array sortByPriority returns a
\* permutation of the input ordered by (priority, deadline, createdAt)
\* ascending, so no task of priority 2 or 3 precedes a task of priority 1 and no
\* task of priority 3 precedes a task of priority 2.
SortByPriorityOrdered ==
    [][(res'.op = "sortByPriority" /\ res'.arg.isArray /\ Len(res'.arg.items) > 0) =>
        LET sorted == res'.value.items
        IN /\ SameTasks(sorted, res'.arg.items)
           /\ \A i, j \in 1..Len(sorted) :
                 (/\ i < j
                  /\ sorted[i].priority \in {Num(1), Num(2), Num(3)}
                  /\ sorted[j].priority \in {Num(1), Num(2), Num(3)}) =>
                     PriorityTripleLeq(sorted[i], sorted[j])]_vars

\* the place of the task x in the array tasks, x being there once
PlaceOf(tasks, x) == CHOOSE k \in 1..Len(tasks) : tasks[k] = x

\* the pairs of places i < j of tasks whose tasks are there once each
OncePairs(tasks) ==
    {p \in (1..Len(tasks)) \X (1..Len(tasks)) :
        /\ p[1] < p[2]
        /\ \A k \in 1..Len(tasks) :
              /\ tasks[k] = tasks[p[1]] => k = p[1]
              /\ tasks[k] = tasks[p[2]] => k = p[2]}

\* a and b are equal under the primary keys of the sort function op
SamePrimaryKey(op, a, b) ==
    /\ a.deadline = b.deadline
    /\ op = "sortByPriority" => a.priority = b.priority

NumericPriorities(tasks) ==
    \A i \in 1..Len(tasks) : tasks[i].priority \in {Num(1), Num(2), Num(3)}

SortLeavesInput ==
    [][res'.op \in {"sortByDeadline", "sortByPriority", "sortTasks"} =>
        /\ argTasks' = argTasks
        /\ res'.arg.isArray => res'.input = res'.arg.items]_vars

\* C17 witness: sortTasks in deadline mode returned another order than that of
\* the array it was given.
SortedCopyWitness ==
    /\ res.op = "sortTasks"
    /\ res.id = "deadline"
    /\ res.value.items # res.arg.items
    /\ res.input = res.arg.items
    /\ argTasks = res.arg.items

(* ---------------- properties of the urgency functions ---------------- *)
\* the milliseconds remaining in the call recorded in r, the deadline parsing
RemainingOf(r) == ParseDate(r.arg.deadline.v) - r.arg.now

TiersByStrictLessThan ==
    [][(Called("getUrgencyColor") /\ res'.arg.deadline # NotADate
          /\ RemainingOf(res') >= 0) =>
        LET r == RemainingOf(res')
            hour == 60 * 60 * 1000
        IN /\ res'.value = Red <=> r < hour
           /\ res'.value = Orange <=> (hour <= r /\ r < 6 * hour)
           /\ res'.value = Yellow <=> (6 * hour <= r /\ r < 24 * hour)
           /\ res'.value = NULL <=> 24 * hour <= r
           /\ Cardinality({tier \in {Red, Orange, Yellow, NULL} : res'.value = tier}) = 1]_vars

\* C19 witness: a deadline exactly 6 hours away was classified yellow.
SixHoursWitness ==
    /\ res.op = "getUrgencyColor"
    /\ res.arg.deadline # NotADate
    /\ RemainingOf(res) = 6 * 60 * 60 * 1000
    /\ res.value = Yellow

\* C20 as claimed: when the whole hours are 0 formatRelativeTime writes the
\* duration as "{m}m", "0m" included: a remaining time that is not 0 and is
\* less than one minute in magnitude gives "Due in 0m" or "Overdue by 0m".
MinutesWrittenWhenNoHours ==
    [][(Called("formatRelativeTime") /\ res'.arg.deadline # NotADate) =>
        LET r == RemainingOf(res')
            magnitude == IF r < 0 THEN 0 - r ELSE r
            minutes == magnitude \div (60 * 1000)
        IN (r # 0 /\ magnitude < 60 * 60 * 1000) =>
               res'.value.text = (IF r > 0 THEN "Due in " ELSE "Overdue by ")
                                     \o ToString(minutes) \o "m"]_vars

\* the milliseconds remaining of the task at now n, its deadline parsing
TaskRemaining(task, n) == ParseDate(task.deadline.v) - n

Handled(name) == steps' = steps + 1 /\ res'.op = name

\* the timer the auto-refresh effect armed for the displayed list: none for the
\* empty list, else one whose interval is 1 minute if needsUrgentRefresh held
\* at the time it was armed (its due time less its interval) and 5 minutes if not
TimerMatchesList ==
    IF Len(app.tasks) = 0 THEN ~app.timer.armed
    ELSE /\ app.timer.armed
         /\ app.timer.interval =
                IF needsUrgentRefresh(app.tasks, app.timer.due - app.timer.interval)
                THEN 60 * 1000 ELSE 5 * 60 * 1000

\* a tick displays the collection read from the task key and leaves a timer
\* armed at the time of the tick
TickRearms ==
    Handled("pollTick") =>
        /\ app'.tasks = getFromStorage(store')
        /\ Len(app'.tasks) > 0 =>
               /\ app'.timer.armed
               /\ app'.timer.due = now' + app'.timer.interval
               /\ needsUrgentRefresh(app'.tasks, now') => app'.timer.interval = 60 * 1000

\* C22: whenever the displayed list is non-empty one poll timer is armed, with
\* a 1-minute period if needsUrgentRefresh held for the list when it was armed
\* and a 5-minute period otherwise, and none is armed for the empty list; every
\* tick re-reads the collection and re-arms the timer with a freshly evaluated
\* cadence, so a task within 1 hour of its deadline is polled every minute
\* from the next tick on.
PollingCadence == []TimerMatchesList /\ [][TickRearms]_vars

\* C22 witness: a tick of the 5-minute timer found the one displayed task,
\* which was more than an hour away when that timer was armed, within the hour,
\* and armed the 1-minute timer.
PollingWitness ==
    /\ res.op = "pollTick"
    /\ Len(app.tasks) = 1
    /\ ~needsUrgentRefresh(app.tasks, now - 5 * Minute)
    /\ needsUrgentRefresh(app.tasks, now)
    /\ app.timer.armed
    /\ app.timer.interval = Minute

(* ---------------- properties of the backup of corrupt text ---------------- *)
\* C23: when the text under the task key does not parse, getFromStorage copies
\* it to the backup key, so that in any sequence of createTask, updateTask,
\* deleteTask, completeTask and importTasks starting from a corrupt task value
\* the corrupt text is held under the backup key by the time the task key is
\* overwritten.
CorruptBackedUpBeforeOverwrite ==
    [][(store.kind = "corrupt" /\ store'.kind # "corrupt") => backup' = store]_vars

(* ---------------- properties of demo mode ---------------- *)
\* C24: while demo mode is active nothing is saved to localStorage: no add,
\* edit, delete, complete or import action performed in demo mode changes the
\* item under the task key.
DemoModeSavesNothing ==
    [][(/\ app.demoMode
        /\ \E name \in {"handleAddTask", "handleUpdateTask", "handleDeleteTask",
                         "handleCompleteTask", "handleImportSuccess"} : Handled(name))
       => store' = store]_vars

(* ---------------- properties of the preferences ---------------- *)
\* the member a setter writes
WrittenBy == [setSortMode |-> "sortMode", setDensity |-> "density",
              setThemePreference |-> "theme"]

ValidFor == [setSortMode |-> {"deadline", "priority"},
             setDensity |-> {"compact", "comfortable", "spacious"},
             setThemePreference |-> {"light", "dark", "system"}]

\* C25: after setSortMode, setDensity or setThemePreference with a valid value
\* every other member of the stored preferences object has the value it had
\* before; with an invalid value the call is rejected and the stored
\* preferences are unchanged, in any sequence of the three setters.
SettersKeepOtherPreferences ==
    [][\A op \in DOMAIN WrittenBy :
          res'.op = op =>
              IF res'.arg.text \in ValidFor[op]
              THEN \A k \in PrefKeySet \ {WrittenBy[op]} :
                       getPrefs(prefsItem')[k] = getPrefs(prefsItem)[k]
              ELSE prefsItem' = prefsItem /\ ~res'.success]_vars

\* C25 witness: setDensity has stored a density in an object that held the
\* theme dark, the sort mode priority and another setting, each written before
\* and each still there.
SettersWitness ==
    /\ res.op = "setDensity"
    /\ res.success
    /\ getPrefs(res.input).density = "undefined"
    /\ getPrefs(prefsItem) = [sortMode |-> "priority", density |-> "spacious",
                              theme |-> "dark", otherSetting |-> "value"]

(* ---------------- properties of two tabs ---------------- *)
\* C26: a storage operation such as createTask is a read of the whole
\* collection followed by a write of the whole collection: the write of a tab
\* that returns success stores the collection that tab read with its own task
\* added, whatever the other tab stored in between, so there is an interleaving
\* in which both return success:true and the stored collection holds the task
\* of only one of them (the witness).
WriteStoresWhatWasRead ==
    [][\A t \in Tabs :
          (tabs[t].pc = "read" /\ tabs'[t].pc = "done" /\ tabs'[t].result.success)
              => getFromStorage(store') = tabs[t].tasks]_vars

\* C26 witness: both tabs' createTask returned success:true, with different
\* tasks, and the stored collection holds the task of the second tab alone.
LostUpdateWitness ==
    /\ \A t \in Tabs : tabs[t].pc = "done" /\ tabs[t].result.success
    /\ tabs[1].result.task.id # tabs[2].result.task.id
    /\ Len(getAllTasks) = 1
    /\ getAllTasks[1].id = tabs[2].result.task.id

(* ---------------- properties of updates to overdue tasks ---------------- *)
\* the task's deadline is an instant the clock has passed
Overdue(task, clock) ==
    /\ task.deadline.t = "string"
    /\ ParseDate(task.deadline.v) # NaN
    /\ ParseDate(task.deadline.v) < clock

\* the updates supply a deadline that is an instant not before the clock
SuppliesNonPastDeadline(updates, clock) ==
    /\ "deadline" \in DOMAIN updates
    /\ updates.deadline.t = "string"
    /\ ParseDate(updates.deadline.v) # NaN
    /\ ParseDate(updates.deadline.v) >= clock

\* the updates supply a deadline that is no string or no date
SuppliesMalformedDeadline(updates) ==
    /\ "deadline" \in DOMAIN updates
    /\ \/ ~Truthy(updates.deadline)
       \/ updates.deadline.t # "string"
       \/ ParseDate(updates.deadline.v) = NaN

HasError(errors, msg) == \E i \in 1..Len(errors) : errors[i] = msg

\* C27: once the clock has passed a stored task's deadline, every
\* processTaskUpdate whose updates do not supply a new non-past deadline fails
\* with "Deadline cannot be in the past" and returns task:null.
OverdueUpdateFailsAsPast ==
    [][(/\ Called("processTaskUpdate")
        /\ Overdue(res'.arg.existing, now)
        /\ ~SuppliesNonPastDeadline(res'.arg.updates, now))
       => /\ ~res'.success
          /\ res'.task = NULL
          /\ HasError(res'.errors, "Deadline cannot be in the past")]_vars

\* C27 as the code has it: such an update fails and returns task:null; the
\* error is "Deadline cannot be in the past" when the updates leave the
\* deadline alone or supply a past instant, and "Deadline is required" or
\* "Invalid deadline format" when they supply a deadline that is no string or
\* no date.  An update that supplies a non-past deadline is not rejected for
\* its deadline.
OverdueUpdateFails ==
    [][(Called("processTaskUpdate") /\ Overdue(res'.arg.existing, now))
       => LET updates == res'.arg.updates
              errors == res'.errors
          IN IF SuppliesNonPastDeadline(updates, now)
             THEN /\ ~HasError(errors, "Deadline cannot be in the past")
                  /\ ~HasError(errors, "Deadline is required")
                  /\ ~HasError(errors, "Invalid deadline format")
             ELSE /\ ~res'.success
                  /\ res'.task = NULL
                  /\ IF SuppliesMalformedDeadline(updates)
                     THEN /\ ~HasError(errors, "Deadline cannot be in the past")
                          /\ \/ HasError(errors, "Deadline is required")
                             \/ HasError(errors, "Invalid deadline format")
                     ELSE HasError(errors, "Deadline cannot be in the past")]_vars

\* C27 witness: a title-only edit of a task whose deadline the clock has passed
\* failed with "Deadline cannot be in the past" alone.
OverdueUpdateWitness ==
    /\ res.op = "processTaskUpdate"
    /\ Overdue(res.arg.existing, now)
    /\ res.arg.updates = [title |-> TitleB]
    /\ ~res.success
    /\ res.task = NULL
    /\ res.errors = <<"Deadline cannot be in the past">>

(* ---------------- properties of the displayed list ---------------- *)
\* C28: while demo mode is active or storage is unavailable, the displayed
\* task list equals the in-memory task list: no event, in particular no tick
\* of the refresh timer, replaces the displayed tasks with the contents of
\* localStorage.
DemoDisplaysInMemory ==
    (Mounted /\ InMemoryMode) => app.tasks = app.inMemoryTasks

(* ---------------- properties of the startup ---------------- *)
\* C29: from every initial storage state, including when localStorage writes
\* fail, the application reloads for a version update at most once and then
\* reaches the state in which the task list is loaded; after
\* performVersionUpdate the next startup finds needsVersionUpdate false.
ReloadsAtMostOnce == app.reloads <= 1

(* ---------------- properties of the density ---------------- *)
\* a run of the auto-demote effect leaves an available density: the one there
\* was if it is available, else comfortable for compact where comfortable is
\* available, else spacious
EffectDemotesInOneStep ==
    (res'.op = "autoDemote" /\ ~view.ran) =>
        LET available == getAvailableDensities(view.width)
        IN /\ Includes(available, view'.density)
           /\ view'.width = view.width
           /\ view'.density =
                  IF Includes(available, view.density) THEN view.density
                  ELSE IF view.density = "compact" /\ Includes(available, "comfortable")
                  THEN "comfortable"
                  ELSE "spacious"

\* C30: for any sequence of viewport width changes and density selections,
\* once the auto-demote effect has run the current density is a member of
\* getAvailableDensities(width), reached in a single demotion step (compact to
\* comfortable if available, otherwise to spacious), and a density that is
\* already available is left unchanged.
DensityAlwaysAvailable ==
    /\ [](view.ran => Includes(getAvailableDensities(view.width), view.density))
    /\ [][EffectDemotesInOneStep]_vars

\* C30 witness: the density was compact in a viewport narrower than 760, and
\* one run of the effect set it to spacious.
DensityWitness ==
    /\ res.op = "autoDemote"
    /\ res.arg.text = "compact"
    /\ view.width < 760
    /\ view.density = "spacious"

====
